---- MODULE Spec2Model ----
(***************************************************************************)
(* Text steganography codec (text_steganography.py), the heuristic         *)
(* recommender and the simulated detector (ai_analyzer.py), and the HTTP   *)
(* handlers that call them (routes/text_steg.py).                          *)
(*                                                                         *)
(* A text is a sequence of Unicode code points; a bit string is a sequence *)
(* of the characters "0" and "1".  Python's string built-ins are modelled  *)
(* by what they return on the characters the model uses (ASCII and the     *)
(* Latin-1 letter U+00AA); the loops of the source are modelled step by    *)
(* step.                                                                   *)
(***************************************************************************)
EXTENDS Integers, Sequences, FiniteSets, TLC

VARIABLES
  pc,          \* position of the modelled caller
  cover_text,  \* argument of embed_message
  secret_message, \* argument of embed_message
  method,      \* method argument of the last embed_message call
  stego,       \* outcome of the last embed_message call
  stego_text,  \* argument of extract_message
  xmethod,     \* method argument of the last extract_message call
  extracted,   \* outcome of the last extract_message call
  binary_message, \* bit string built from secret_message
  message,     \* payload decoded from binary_message
  text,        \* argument of analyze_text_for_steganography
  analysis,    \* outcome of the last analyze_text_for_steganography call
  random_state, \* draws taken from the module-level generator of `random`
  detection,   \* outcome of the last detect_steganography call
  history,     \* the calls so far on the shared instances, with what they returned
  draws,       \* what random.random() returned so far, in thousandths
  request,     \* JSON body of the last HTTP request
  response,    \* what the handler answered to it
  instances,   \* attributes of the module-level text_steg and ai_analyzer
  calls        \* per thread, the arguments of the call it is running

vars == <<pc, cover_text, secret_message, method, stego, stego_text, xmethod,
          extracted, binary_message, message, text, analysis, random_state,
          detection, history, draws, request, response, instances, calls>>

-----------------------------------------------------------------------------
(* Bounds of the model. *)

\* longest secret message, in characters
MaxMsgLen == 2
\* most repetitions of a phrase in a cover text
MaxRep == 3
\* most repetitions of a ten-word phrase in an analysed text
MaxTextRep == 25
\* most recommender and detector calls of one run
MaxCalls == 3
\* threads calling the shared instances
NumThreads == 2
\* most words of a text whose capacity is compared with another's
MaxPairWords == 34

-----------------------------------------------------------------------------
(* Characters. *)

TAB == 9
SPACE == 32
NUL == 0

\* str.isspace over U+0000..U+00FF: what str.split() splits on
IsSpace(c) == c \in {9, 10, 11, 12, 13, 28, 29, 30, 31, 32, 133, 160}

\* str.isupper / str.isalpha on one character.  U+00AA and U+00BA are
\* letters with no upper-case form.
isupper(c) == c \in 65..90
isalpha(c) == c \in (65..90) \cup (97..122) \cup {170, 186}

lower_char(c) == IF c \in 65..90 THEN c + 32 ELSE c
upper_char(c) == IF c \in 97..122 THEN c - 32 ELSE c

\* str.lower / str.upper
lower(s) == [i \in 1..Len(s) |-> lower_char(s[i])]
upper(s) == [i \in 1..Len(s) |-> upper_char(s[i])]

\* str.capitalize: first character upper-cased, the rest lower-cased
capitalize(s) ==
  IF s = <<>> THEN s ELSE <<upper_char(s[1])>> \o lower(SubSeq(s, 2, Len(s)))

\* the character class '.,!?;:"()[]{}'
PUNCTUATION == {46, 44, 33, 63, 59, 58, 34, 40, 41, 91, 93, 123, 125}

min(a, b) == IF a < b THEN a ELSE b

Indices(s) == [i \in 1..Len(s) |-> i]

\* str.strip(chars): leading and trailing characters of the class removed
strip(s, chars) ==
  LET keep == SelectSeq(Indices(s), LAMBDA i : s[i] \notin chars)
  IN  IF keep = <<>> THEN <<>> ELSE SubSeq(s, keep[1], keep[Len(keep)])

\* str.split(): the maximal runs of non-whitespace characters, in order
split(s) ==
  LET starts == SelectSeq(Indices(s), LAMBDA i :
                  ~IsSpace(s[i]) /\ (i = 1 \/ IsSpace(s[i - 1])))
      ends   == SelectSeq(Indices(s), LAMBDA i :
                  ~IsSpace(s[i]) /\ (i = Len(s) \/ IsSpace(s[i + 1])))
  IN  [k \in 1..Len(starts) |-> SubSeq(s, starts[k], ends[k])]

\* sep.join(words[lo..hi])
RECURSIVE join_range(_, _, _, _)
join_range(sep, words, lo, hi) ==
  IF lo > hi THEN <<>>
  ELSE IF lo = hi THEN words[lo]
  ELSE LET mid == (lo + hi) \div 2
       IN  join_range(sep, words, lo, mid) \o sep
             \o join_range(sep, words, mid + 1, hi)

join(sep, words) == join_range(sep, words, 1, Len(words))

\* the concatenation of a sequence of strings
concat(strs) == join(<<>>, strs)

\* outcome of a call: a returned value or a raised exception
Return(v) == [ok |-> TRUE, value |-> v, error |-> "none"]
Raise(e) == [ok |-> FALSE, value |-> <<>>, error |-> e]

-----------------------------------------------------------------------------
(* Bit serialization, written inline in each of the three methods. *)

RECURSIVE bin(_)
\* the binary digits of n, most significant first, no leading zeros
bin(n) ==
  IF n < 2 THEN <<IF n = 1 THEN "1" ELSE "0">>
  ELSE bin(n \div 2) \o <<IF n % 2 = 1 THEN "1" ELSE "0">>

\* format(n, '08b'): zero-padded to a width of at least 8
format_08b(n) ==
  LET b == bin(n)
  IN  [i \in 1..(IF Len(b) < 8 THEN 8 - Len(b) ELSE 0) |-> "0"] \o b

END_MARKER == <<"0", "0", "0", "0", "0", "0", "0", "0">>

\* message_to_binary without the end-of-message marker
message_to_binary_no_marker(secret) ==
  concat([i \in 1..Len(secret) |-> format_08b(secret[i])])

\* ''.join(format(ord(char), '08b') for char in secret_message) + '00000000'
message_to_binary(secret) ==
  concat([i \in 1..Len(secret) |-> format_08b(secret[i])]) \o END_MARKER

RECURSIVE int2(_)
\* int(byte, 2)
int2(byte) ==
  IF byte = <<>> THEN 0
  ELSE 2 * int2(SubSeq(byte, 1, Len(byte) - 1))
         + (IF byte[Len(byte)] = "1" THEN 1 ELSE 0)

RECURSIVE decode_partial(_, _, _)
\* decode_from without the "i + 8 <= len" test: a short last chunk is decoded
decode_partial(bits, i, msg) ==
  IF i >= Len(bits) THEN msg
  ELSE LET byte == SubSeq(bits, i + 1, min(i + 8, Len(bits)))
       IN  IF byte = END_MARKER THEN msg
           ELSE decode_partial(bits, i + 8, Append(msg, int2(byte)))

RECURSIVE decode_continue(_, _, _)
\* decode_from with "continue" where the end marker should "break"
decode_continue(bits, i, msg) ==
  IF i >= Len(bits) THEN msg
  ELSE IF i + 8 <= Len(bits)
       THEN LET byte == SubSeq(bits, i + 1, i + 8)
            IN  IF byte = END_MARKER THEN decode_continue(bits, i + 8, msg)
                ELSE decode_continue(bits, i + 8, Append(msg, int2(byte)))
       ELSE decode_continue(bits, i + 8, msg)

RECURSIVE decode_from(_, _, _)
\* for i in range(0, len(bits), 8): i is the 0-based offset of the chunk
decode_from(bits, i, msg) ==
  IF i >= Len(bits) THEN msg
  ELSE IF i + 8 <= Len(bits)
       THEN LET byte == SubSeq(bits, i + 1, i + 8)
            IN  IF byte = END_MARKER THEN msg
                ELSE decode_from(bits, i + 8, Append(msg, int2(byte)))
       ELSE decode_from(bits, i + 8, msg)

\* binary_to_message that decodes up to the last end marker of the bits
binary_to_message_last_marker(bits) ==
  LET n      == Len(bits) \div 8
      byte(k) == SubSeq(bits, 8 * (k - 1) + 1, 8 * k)
      zeros  == {k \in 1..n : byte(k) = END_MARKER}
      stop   == IF zeros = {} THEN n + 1
                ELSE CHOOSE k \in zeros : \A j \in zeros : j <= k
  IN  [k \in 1..(stop - 1) |-> int2(byte(k))]

\* "Convert binary to text": the decoding loop ending each extract method
binary_to_message(bits) == decode_from(bits, 0, <<>>)

-----------------------------------------------------------------------------
(* Whitespace method. *)

RECURSIVE extend_words(_, _, _)
\* while len(words) - 1 < len(binary_message):
\*     words.append(words[len(words) % len(cover_text.split())])
\* n is len(cover_text.split()), not zero here
extend_words(words, n, nbits) ==
  IF Len(words) - 1 < nbits
  THEN extend_words(Append(words, words[(Len(words) % n) + 1]), n, nbits)
  ELSE words

\* separator that writes a tab once the bits are exhausted
separator_tab_after(bits, i) ==
  IF i < Len(bits) THEN (IF bits[i + 1] = "1" THEN TAB ELSE SPACE) ELSE TAB

\* separator with the two characters exchanged
separator_inverted(bits, i) ==
  IF i < Len(bits) THEN (IF bits[i + 1] = "1" THEN SPACE ELSE TAB) ELSE SPACE

\* the separator written after the word of 0-based index i
separator(bits, i) ==
  IF i < Len(bits) THEN (IF bits[i + 1] = "1" THEN TAB ELSE SPACE) ELSE SPACE

\* _embed_whitespace that returns a cover without words as it is
_embed_whitespace_blank_ok(cover, secret) ==
  LET bits   == message_to_binary(secret)
      words0 == split(cover)
  IN  IF Len(words0) = 0
      THEN Return(cover)
      ELSE LET words == extend_words(words0, Len(words0), Len(bits))
               stego_words ==
                 [j \in 1..(2 * Len(words) - 1) |->
                    IF j % 2 = 1 THEN words[(j + 1) \div 2]
                    ELSE <<separator(bits, (j \div 2) - 1)>>]
           IN  Return(concat(stego_words))

_embed_whitespace(cover, secret) ==
  LET bits   == message_to_binary(secret)
      words0 == split(cover)
  IN  IF Len(words0) - 1 < Len(bits) /\ Len(words0) = 0
      THEN Raise("ZeroDivisionError")
      ELSE LET words == extend_words(words0, Len(words0), Len(bits))
               stego_words ==
                 [j \in 1..(2 * Len(words) - 1) |->
                    IF j % 2 = 1 THEN words[(j + 1) \div 2]
                    ELSE <<separator(bits, (j \div 2) - 1)>>]
           IN  Return(concat(stego_words))

\* whitespace_parts that takes a run of spaces and tabs for one part
whitespace_parts_runs(s) ==
  LET sep(i)  == s[i] \in {SPACE, TAB}
      starts  == SelectSeq(Indices(s), LAMBDA i :
                   i = 1 \/ sep(i) # sep(i - 1))
      stop(k) == IF k < Len(starts) THEN starts[k + 1] - 1 ELSE Len(s)
  IN  [k \in 1..Len(starts) |-> SubSeq(s, starts[k], stop(k))]

\* the parts of the character scan: each space or tab on its own, each
\* maximal run of other characters as one part, in text order
whitespace_parts(s) ==
  LET sep(i)  == s[i] \in {SPACE, TAB}
      starts  == SelectSeq(Indices(s), LAMBDA i :
                   sep(i) \/ i = 1 \/ sep(i - 1))
      stop(k) == IF k < Len(starts) THEN starts[k + 1] - 1 ELSE Len(s)
  IN  [k \in 1..Len(starts) |-> SubSeq(s, starts[k], stop(k))]

\* the bits read from the parts: '1' per tab part, '0' per space part
whitespace_bits(s) ==
  LET seps == SelectSeq(whitespace_parts(s),
                        LAMBDA part : part = <<TAB>> \/ part = <<SPACE>>)
  IN  [k \in 1..Len(seps) |-> IF seps[k] = <<TAB>> THEN "1" ELSE "0"]

_extract_whitespace(s) == Return(binary_to_message(whitespace_bits(s)))

-----------------------------------------------------------------------------
(* Synonym method. *)

\* the dict literal, in insertion order; words are spelled as code points
synonyms ==
  <<
    \* 'the': ['the', 'this', 'that', 'these', 'those']
    [key |-> <<116,104,101>>,
     options |-> << <<116,104,101>>,
                    <<116,104,105,115>>,
                    <<116,104,97,116>>,
                    <<116,104,101,115,101>>,
                    <<116,104,111,115,101>> >>],
    \* 'and': ['and', 'also', 'plus', 'furthermore', 'moreover']
    [key |-> <<97,110,100>>,
     options |-> << <<97,110,100>>,
                    <<97,108,115,111>>,
                    <<112,108,117,115>>,
                    <<102,117,114,116,104,101,114,109,111,114,101>>,
                    <<109,111,114,101,111,118,101,114>> >>],
    \* 'or': ['or', 'either', 'else', 'alternatively', 'otherwise']
    [key |-> <<111,114>>,
     options |-> << <<111,114>>,
                    <<101,105,116,104,101,114>>,
                    <<101,108,115,101>>,
                    <<97,108,116,101,114,110,97,116,105,118,101,108,121>>,
                    <<111,116,104,101,114,119,105,115,101>> >>],
    \* 'but': ['but', 'however', 'yet', 'nevertheless', 'nonetheless']
    [key |-> <<98,117,116>>,
     options |-> << <<98,117,116>>,
                    <<104,111,119,101,118,101,114>>,
                    <<121,101,116>>,
                    <<110,101,118,101,114,116,104,101,108,101,115,115>>,
                    <<110,111,110,101,116,104,101,108,101,115,115>> >>],
    \* 'is': ['is', 'exists', 'appears', 'seems', 'represents']
    [key |-> <<105,115>>,
     options |-> << <<105,115>>,
                    <<101,120,105,115,116,115>>,
                    <<97,112,112,101,97,114,115>>,
                    <<115,101,101,109,115>>,
                    <<114,101,112,114,101,115,101,110,116,115>> >>],
    \* 'are': ['are', 'exist', 'seem', 'appear', 'represent']
    [key |-> <<97,114,101>>,
     options |-> << <<97,114,101>>,
                    <<101,120,105,115,116>>,
                    <<115,101,101,109>>,
                    <<97,112,112,101,97,114>>,
                    <<114,101,112,114,101,115,101,110,116>> >>],
    \* 'was': ['was', 'were', 'existed', 'occurred', 'happened']
    [key |-> <<119,97,115>>,
     options |-> << <<119,97,115>>,
                    <<119,101,114,101>>,
                    <<101,120,105,115,116,101,100>>,
                    <<111,99,99,117,114,114,101,100>>,
                    <<104,97,112,112,101,110,101,100>> >>],
    \* 'were': ['were', 'was', 'seemed', 'appeared', 'occurred']
    [key |-> <<119,101,114,101>>,
     options |-> << <<119,101,114,101>>,
                    <<119,97,115>>,
                    <<115,101,101,109,101,100>>,
                    <<97,112,112,101,97,114,101,100>>,
                    <<111,99,99,117,114,114,101,100>> >>],
    \* 'have': ['have', 'possess', 'own', 'contain', 'hold']
    [key |-> <<104,97,118,101>>,
     options |-> << <<104,97,118,101>>,
                    <<112,111,115,115,101,115,115>>,
                    <<111,119,110>>,
                    <<99,111,110,116,97,105,110>>,
                    <<104,111,108,100>> >>],
    \* 'has': ['has', 'possesses', 'owns', 'contains', 'holds']
    [key |-> <<104,97,115>>,
     options |-> << <<104,97,115>>,
                    <<112,111,115,115,101,115,115,101,115>>,
                    <<111,119,110,115>>,
                    <<99,111,110,116,97,105,110,115>>,
                    <<104,111,108,100,115>> >>],
    \* 'had': ['had', 'possessed', 'owned', 'contained', 'held']
    [key |-> <<104,97,100>>,
     options |-> << <<104,97,100>>,
                    <<112,111,115,115,101,115,115,101,100>>,
                    <<111,119,110,101,100>>,
                    <<99,111,110,116,97,105,110,101,100>>,
                    <<104,101,108,100>> >>],
    \* 'do': ['do', 'perform', 'execute', 'accomplish', 'achieve']
    [key |-> <<100,111>>,
     options |-> << <<100,111>>,
                    <<112,101,114,102,111,114,109>>,
                    <<101,120,101,99,117,116,101>>,
                    <<97,99,99,111,109,112,108,105,115,104>>,
                    <<97,99,104,105,101,118,101>> >>],
    \* 'does': ['does', 'performs', 'executes', 'accomplishes', 'achieves']
    [key |-> <<100,111,101,115>>,
     options |-> << <<100,111,101,115>>,
                    <<112,101,114,102,111,114,109,115>>,
                    <<101,120,101,99,117,116,101,115>>,
                    <<97,99,99,111,109,112,108,105,115,104,101,115>>,
                    <<97,99,104,105,101,118,101,115>> >>],
    \* 'did': ['did', 'performed', 'executed', 'accomplished', 'achieved']
    [key |-> <<100,105,100>>,
     options |-> << <<100,105,100>>,
                    <<112,101,114,102,111,114,109,101,100>>,
                    <<101,120,101,99,117,116,101,100>>,
                    <<97,99,99,111,109,112,108,105,115,104,101,100>>,
                    <<97,99,104,105,101,118,101,100>> >>],
    \* 'will': ['will', 'shall', 'going to', 'intend to', 'plan to']
    [key |-> <<119,105,108,108>>,
     options |-> << <<119,105,108,108>>,
                    <<115,104,97,108,108>>,
                    <<103,111,105,110,103,32,116,111>>,
                    <<105,110,116,101,110,100,32,116,111>>,
                    <<112,108,97,110,32,116,111>> >>],
    \* 'would': ['would', 'should', 'going to', 'intend to', 'plan to']
    [key |-> <<119,111,117,108,100>>,
     options |-> << <<119,111,117,108,100>>,
                    <<115,104,111,117,108,100>>,
                    <<103,111,105,110,103,32,116,111>>,
                    <<105,110,116,101,110,100,32,116,111>>,
                    <<112,108,97,110,32,116,111>> >>],
    \* 'could': ['could', 'might', 'possibly', 'potentially', 'perhaps']
    [key |-> <<99,111,117,108,100>>,
     options |-> << <<99,111,117,108,100>>,
                    <<109,105,103,104,116>>,
                    <<112,111,115,115,105,98,108,121>>,
                    <<112,111,116,101,110,116,105,97,108,108,121>>,
                    <<112,101,114,104,97,112,115>> >>],
    \* 'should': ['should', 'ought to', 'must', 'need to', 'have to']
    [key |-> <<115,104,111,117,108,100>>,
     options |-> << <<115,104,111,117,108,100>>,
                    <<111,117,103,104,116,32,116,111>>,
                    <<109,117,115,116>>,
                    <<110,101,101,100,32,116,111>>,
                    <<104,97,118,101,32,116,111>> >>],
    \* 'may': ['may', 'might', 'possibly', 'potentially', 'perhaps']
    [key |-> <<109,97,121>>,
     options |-> << <<109,97,121>>,
                    <<109,105,103,104,116>>,
                    <<112,111,115,115,105,98,108,121>>,
                    <<112,111,116,101,110,116,105,97,108,108,121>>,
                    <<112,101,114,104,97,112,115>> >>],
    \* 'can': ['can', 'could', 'able to', 'capable of', 'permitted to']
    [key |-> <<99,97,110>>,
     options |-> << <<99,97,110>>,
                    <<99,111,117,108,100>>,
                    <<97,98,108,101,32,116,111>>,
                    <<99,97,112,97,98,108,101,32,111,102>>,
                    <<112,101,114,109,105,116,116,101,100,32,116,111>> >>],
    \* 'be': ['be', 'exist', 'become', 'appear', 'seem']
    [key |-> <<98,101>>,
     options |-> << <<98,101>>,
                    <<101,120,105,115,116>>,
                    <<98,101,99,111,109,101>>,
                    <<97,112,112,101,97,114>>,
                    <<115,101,101,109>> >>]
  >>

\* the same literal, written a second time in _extract_synonym
extract_synonyms == synonyms

\* 'Moreover' for the dummy word of a 1
DUMMY_ONE_MOREOVER == <<77, 111, 114, 101, 111, 118, 101, 114>>

\* 'Furthermore', 'and', 'furthermore'
DUMMY_ONE == <<70, 117, 114, 116, 104, 101, 114, 109, 111, 114, 101>>
DUMMY_ZERO == <<97, 110, 100>>
FURTHERMORE == <<102, 117, 114, 116, 104, 101, 114, 109, 111, 114, 101>>

\* word.lower().strip('.,!?;:"()[]{}')
clean_of(word) == strip(lower(word), PUNCTUATION)

\* clean_word in synonyms
is_key(clean_word) == \E k \in 1..Len(synonyms) : synonyms[k].key = clean_word

\* synonyms[clean_word]
options_of(clean_word) ==
  synonyms[CHOOSE k \in 1..Len(synonyms) : synonyms[k].key = clean_word].options

\* the token emitted for a cover word that carries bit
substitute(word, bit) ==
  LET options        == options_of(clean_of(word))
      punctuation    == SelectSeq(word, LAMBDA c : c \in PUNCTUATION)
      is_capitalized == isupper(word[1])
      synonym        == IF bit = "1"
                        THEN (IF Len(options) > 1 THEN options[2] ELSE options[1])
                        ELSE options[1]
  IN  (IF is_capitalized THEN capitalize(synonym) ELSE synonym) \o punctuation

RECURSIVE synonym_loop_every_word(_, _, _, _, _)
\* synonym_loop that moves on to the next bit at every word, key or not
synonym_loop_every_word(words, i, bits, bit_index, stego_words) ==
  IF i > Len(words) THEN <<stego_words, bit_index>>
  ELSE IF is_key(clean_of(words[i])) /\ bit_index < Len(bits)
       THEN synonym_loop_every_word(words, i + 1, bits, bit_index + 1,
              Append(stego_words, substitute(words[i], bits[bit_index + 1])))
       ELSE synonym_loop_every_word(words, i + 1, bits,
              min(bit_index + 1, Len(bits)), Append(stego_words, words[i]))

RECURSIVE synonym_loop(_, _, _, _, _)
\* for i, word in enumerate(words): i is 1-based here; returns the pair
\* <<stego_words, bit_index>> the loop ends with
synonym_loop(words, i, bits, bit_index, stego_words) ==
  IF i > Len(words) THEN <<stego_words, bit_index>>
  ELSE IF is_key(clean_of(words[i])) /\ bit_index < Len(bits)
       THEN synonym_loop(words, i + 1, bits, bit_index + 1,
              Append(stego_words, substitute(words[i], bits[bit_index + 1])))
       ELSE synonym_loop(words, i + 1, bits, bit_index,
              Append(stego_words, words[i]))

\* synonym_dummies that reads the bits from the start of the bit string
synonym_dummies_from_start(bits, bit_index) ==
  [k \in 1..(Len(bits) - bit_index) |->
     IF bits[k] = "1" THEN DUMMY_ONE ELSE DUMMY_ZERO]

\* while bit_index < len(binary_message): one dummy word per remaining bit
synonym_dummies(bits, bit_index) ==
  [k \in 1..(Len(bits) - bit_index) |->
     IF bits[bit_index + k] = "1" THEN DUMMY_ONE ELSE DUMMY_ZERO]

\* _embed_synonym that joins the words with tabs
_embed_synonym_tabs(cover, secret) ==
  LET bits == message_to_binary(secret)
      done == synonym_loop(split(cover), 1, bits, 0, <<>>)
  IN  Return(join(<<TAB>>, done[1] \o synonym_dummies(bits, done[2])))

_embed_synonym(cover, secret) ==
  LET bits == message_to_binary(secret)
      done == synonym_loop(split(cover), 1, bits, 0, <<>>)
  IN  Return(join(<<SPACE>>, done[1] \o synonym_dummies(bits, done[2])))

\* synonym_word_bits in which the last matching key decides
synonym_word_bits_last_key(word) ==
  LET clean_word == clean_of(word)
      hits == SelectSeq(Indices(extract_synonyms), LAMBDA k :
                \/ clean_word = extract_synonyms[k].options[1]
                \/ /\ Len(extract_synonyms[k].options) > 1
                   /\ clean_word = extract_synonyms[k].options[2])
  IN  IF hits # <<>>
      THEN (IF clean_word = extract_synonyms[hits[Len(hits)]].options[1]
            THEN <<"0">> ELSE <<"1">>)
      ELSE IF clean_word = FURTHERMORE THEN <<"1">>
      ELSE IF clean_word = DUMMY_ZERO THEN <<"0">>
      ELSE <<>>

\* the bits one token contributes on extraction: the first table entry, in
\* dict order, whose options[0] or options[1] is the token decides; the
\* dummy words are looked at only when no entry matches
synonym_word_bits(word) ==
  LET clean_word == clean_of(word)
      hits == SelectSeq(Indices(extract_synonyms), LAMBDA k :
                \/ clean_word = extract_synonyms[k].options[1]
                \/ /\ Len(extract_synonyms[k].options) > 1
                   /\ clean_word = extract_synonyms[k].options[2])
  IN  IF hits # <<>>
      THEN (IF clean_word = extract_synonyms[hits[1]].options[1]
            THEN <<"0">> ELSE <<"1">>)
      ELSE IF clean_word = FURTHERMORE THEN <<"1">>
      ELSE IF clean_word = DUMMY_ZERO THEN <<"0">>
      ELSE <<>>

synonym_bits(s) ==
  LET words == split(s)
  IN  concat([k \in 1..Len(words) |-> synonym_word_bits(words[k])])

_extract_synonym(s) == Return(binary_to_message(synonym_bits(s)))

-----------------------------------------------------------------------------
(* Capitalization ("binary") method. *)

\* 'Data', 'data'
DATA_ONE == <<68, 97, 116, 97>>
DATA_ZERO == <<100, 97, 116, 97>>

\* capitalized that leaves the letters of a 0 bit as they are
capitalized_keep_case(word, bit) ==
  LET clean_word  == SelectSeq(word, LAMBDA c : isalpha(c))
      punctuation == SelectSeq(word, LAMBDA c : ~isalpha(c))
  IN  (IF bit = "1" THEN capitalize(clean_word) ELSE clean_word)
        \o punctuation

\* the token emitted for a cover word that carries bit
capitalized(word, bit) ==
  LET clean_word  == SelectSeq(word, LAMBDA c : isalpha(c))
      punctuation == SelectSeq(word, LAMBDA c : ~isalpha(c))
      processed_word ==
        IF bit = "1"
        THEN (IF clean_word # <<>>
              THEN (IF Len(clean_word) > 1
                    THEN <<upper_char(clean_word[1])>>
                           \o lower(SubSeq(clean_word, 2, Len(clean_word)))
                    ELSE upper(clean_word))
              ELSE clean_word)
        ELSE lower(clean_word)
  IN  processed_word \o punctuation

RECURSIVE binary_loop_lower_rest(_, _, _, _, _)
\* binary_loop that lowers the words it meets once no bit is left
binary_loop_lower_rest(words, i, bits, bit_index, stego_words) ==
  IF i > Len(words) THEN <<stego_words, bit_index>>
  ELSE IF bit_index < Len(bits)
       THEN binary_loop_lower_rest(words, i + 1, bits, bit_index + 1,
              Append(stego_words, capitalized(words[i], bits[bit_index + 1])))
       ELSE <<stego_words
                \o [k \in 1..(Len(words) - i + 1) |-> lower(words[i + k - 1])],
              bit_index>>

RECURSIVE binary_loop(_, _, _, _, _)
\* for i, word in enumerate(words): returns <<stego_words, bit_index>>.
\* Once no bit is left every later iteration takes the else branch, which
\* appends the word as it stands: the rest of the words is appended at once.
binary_loop(words, i, bits, bit_index, stego_words) ==
  IF i > Len(words) THEN <<stego_words, bit_index>>
  ELSE IF bit_index < Len(bits)
       THEN binary_loop(words, i + 1, bits, bit_index + 1,
              Append(stego_words, capitalized(words[i], bits[bit_index + 1])))
       ELSE <<stego_words \o SubSeq(words, i, Len(words)), bit_index>>

\* while bit_index < len(binary_message): one dummy word per remaining bit
binary_dummies(bits, bit_index) ==
  [k \in 1..(Len(bits) - bit_index) |->
     IF bits[bit_index + k] = "1" THEN DATA_ONE ELSE DATA_ZERO]

_embed_binary(cover, secret) ==
  LET bits == message_to_binary(secret)
      done == binary_loop(split(cover), 1, bits, 0, <<>>)
  IN  Return(join(<<SPACE>>, done[1] \o binary_dummies(bits, done[2])))

\* binary_bits that reads no bit from a token without a letter
binary_bits_skip_letterless(s) ==
  LET words == SelectSeq(split(s), LAMBDA word :
                 \E i \in 1..Len(word) : isalpha(word[i]))
  IN  [k \in 1..Len(words) |->
         IF isupper(SelectSeq(words[k], isalpha)[1]) THEN "1" ELSE "0"]

\* one bit per token: '1' iff its first alphabetic character is upper case
binary_bits(s) ==
  LET words == split(s)
      first_upper(word) ==
        LET clean_word == SelectSeq(word, LAMBDA c : isalpha(c))
        IN  clean_word # <<>> /\ isupper(clean_word[1])
  IN  [k \in 1..Len(words) |-> IF first_upper(words[k]) THEN "1" ELSE "0"]

_extract_binary(s) == Return(binary_to_message(binary_bits(s)))

-----------------------------------------------------------------------------
(* Dispatch. *)

\* embed_message that lets the generator of `random`, which the module
\* imports, pick the whitespace method on every other draw
embed_message_random(cover, secret, m) ==
  IF random_state % 2 = 1 \/ m = "whitespace"
  THEN _embed_whitespace(cover, secret)
  ELSE IF m = "synonym" THEN _embed_synonym(cover, secret)
  ELSE IF m = "binary" THEN _embed_binary(cover, secret)
  ELSE Raise("ValueError: Unsupported method")

\* embed_message that takes the default method for an unknown one
embed_message_default(cover, secret, m) ==
  IF m = "synonym" THEN _embed_synonym(cover, secret)
  ELSE IF m = "binary" THEN _embed_binary(cover, secret)
  ELSE _embed_whitespace(cover, secret)

embed_message(cover, secret, m) ==
  IF m = "whitespace" THEN _embed_whitespace(cover, secret)
  ELSE IF m = "synonym" THEN _embed_synonym(cover, secret)
  ELSE IF m = "binary" THEN _embed_binary(cover, secret)
  ELSE Raise("ValueError: Unsupported method")

\* extract_message that goes on to the other methods when the method it
\* was given extracts nothing
extract_message_retry(s, m) ==
  LET named == IF m = "whitespace" THEN _extract_whitespace(s)
               ELSE IF m = "synonym" THEN _extract_synonym(s)
               ELSE IF m = "binary" THEN _extract_binary(s)
               ELSE Raise("ValueError: Unsupported method")
      found == SelectSeq(<<_extract_whitespace(s), _extract_synonym(s),
                           _extract_binary(s)>>,
                         LAMBDA out : out.value # <<>>)
  IN  IF named.ok /\ named.value = <<>> /\ found # <<>>
      THEN found[1] ELSE named

extract_message(s, m) ==
  IF m = "whitespace" THEN _extract_whitespace(s)
  ELSE IF m = "synonym" THEN _extract_synonym(s)
  ELSE IF m = "binary" THEN _extract_binary(s)
  ELSE Raise("ValueError: Unsupported method")

-----------------------------------------------------------------------------
(* Recommender (AIAnalyzer).  Fractions are kept exact: a confidence is a  *)
(* number of hundredths, the complexity score a pair <<num, den>>.         *)

\* the list literal of function words
synonym_words ==
  << <<116,104,101>>,
     <<97,110,100>>,
     <<111,114>>,
     <<98,117,116>>,
     <<105,115>>,
     <<97,114,101>>,
     <<119,97,115>>,
     <<119,101,114,101>>,
     <<104,97,118,101>>,
     <<104,97,115>>,
     <<104,97,100>>,
     <<100,111>>,
     <<100,111,101,115>>,
     <<100,105,100>>,
     <<119,105,108,108>>,
     <<119,111,117,108,100>>,
     <<99,111,117,108,100>>,
     <<115,104,111,117,108,100>>,
     <<109,97,121>>,
     <<99,97,110>>,
     <<98,101>> >>

RECURSIVE sum_len(_, _, _)
\* sum(len(word) for word in words[lo..hi])
sum_len(words, lo, hi) ==
  IF lo > hi THEN 0
  ELSE IF lo = hi THEN Len(words[lo])
  ELSE LET mid == (lo + hi) \div 2
       IN  sum_len(words, lo, mid) + sum_len(words, mid + 1, hi)

\* (min(avg_length / 10, 1.0) + unique_words / len(words)) / 2, which is
\* (min(total, 10 n) + 10 unique) / (20 n) for n words of total length total
_calculate_text_complexity(t) ==
  LET words == split(t)
      n     == Len(words)
      total == sum_len(words, 1, n)
      unique_words == Cardinality({lower(words[k]) : k \in 1..n})
  IN  IF n = 0 THEN <<0, 1>>
      ELSE <<(IF total < 10 * n THEN total ELSE 10 * n) + 10 * unique_words,
             20 * n>>

\* choose_method with "word_count <= 30" as its first test
choose_method_le(word_count, char_count, synonym_count, complexity_score) ==
  IF word_count <= 30 THEN <<"whitespace", 95>>
  ELSE IF 5 * synonym_count > 2 * word_count THEN <<"synonym", 90>>
  ELSE IF 5 * complexity_score[1] > 4 * complexity_score[2]
       THEN <<"synonym", 85>>
  ELSE IF word_count > 200 /\ char_count > 1000 THEN <<"binary", 80>>
  ELSE <<"whitespace", 75>>

\* the if/elif chain choosing <<recommended_method, confidence>>; the first
\* rule that matches decides
choose_method(word_count, char_count, synonym_count, complexity_score) ==
  IF word_count < 30 THEN <<"whitespace", 95>>
  \* synonym_count > word_count * 0.4
  ELSE IF 5 * synonym_count > 2 * word_count THEN <<"synonym", 90>>
  \* complexity_score > 0.8
  ELSE IF 5 * complexity_score[1] > 4 * complexity_score[2]
       THEN <<"synonym", 85>>
  ELSE IF word_count > 200 /\ char_count > 1000 THEN <<"binary", 80>>
  ELSE <<"whitespace", 75>>

\* estimate_capacity that gives texts of 30 words and more a fifth, not a
\* third, of their words
estimate_capacity_short_third(recommended_method, word_count, synonym_count) ==
  IF recommended_method = "whitespace"
  THEN (IF word_count < 30 THEN word_count \div 3 ELSE word_count \div 5)
  ELSE IF recommended_method = "synonym"
       THEN min(synonym_count, word_count \div 4)
  ELSE word_count \div 5

\* estimate_capacity whose synonym case forgets the word_count // 4 cap
estimate_capacity_no_min(recommended_method, word_count, synonym_count) ==
  IF recommended_method = "whitespace" THEN word_count \div 3
  ELSE IF recommended_method = "synonym" THEN synonym_count
  ELSE word_count \div 5

\* "capacity estimation based on method"
estimate_capacity(recommended_method, word_count, synonym_count) ==
  IF recommended_method = "whitespace" THEN word_count \div 3
  ELSE IF recommended_method = "synonym"
       THEN min(synonym_count, word_count \div 4)
  ELSE word_count \div 5

\* sum(1 for word in words if word.lower().strip(...) in synonym_words)
count_synonym_words(words) ==
  Cardinality({k \in 1..Len(words) :
    \E j \in 1..Len(synonym_words) : clean_of(words[k]) = synonym_words[j]})

\* a recommender that lowers its confidence by what the shared random
\* generator has given out so far
analyze_with_random(t) ==
  LET words         == split(t)
      word_count    == Len(words)
      synonym_count == count_synonym_words(words)
      choice        == choose_method(word_count, Len(t), synonym_count,
                                     _calculate_text_complexity(t))
  IN  [word_count         |-> word_count,
       char_count         |-> Len(t),
       synonym_word_count |-> synonym_count,
       recommended_method |-> choice[1],
       confidence         |-> choice[2] - random_state,
       estimated_capacity |->
         estimate_capacity(choice[1], word_count, synonym_count)]

\* the returned dict without its descriptive fields (the rounded averages,
\* the explanation, the insights and the tips), which nothing reads back
analyze_text_for_steganography(t) ==
  LET words         == split(t)
      word_count    == Len(words)
      char_count    == Len(t)
      synonym_count == count_synonym_words(words)
      choice        == choose_method(word_count, char_count, synonym_count,
                                     _calculate_text_complexity(t))
  IN  [word_count         |-> word_count,
       char_count         |-> char_count,
       synonym_word_count |-> synonym_count,
       recommended_method |-> choice[1],
       confidence         |-> choice[2],
       estimated_capacity |->
         estimate_capacity(choice[1], word_count, synonym_count)]

-----------------------------------------------------------------------------
(* Simulated detector.  A draw d stands for random.random() = d / 1000;    *)
(* inside the function a confidence is a number of two-thousandths, and    *)
(* the returned confidence and detection_score, rounded to two decimals,   *)
(* are numbers of hundredths.                                              *)

\* round(num / den, 2), in hundredths: the nearest hundredth, the even one
\* of two that are equally near
round_2(num, den) ==
  LET q == (100 * num) \div den
      r == (100 * num) % den
  IN  IF 2 * r < den THEN q
      ELSE IF 2 * r > den THEN q + 1
      ELSE IF q % 2 = 0 THEN q ELSE q + 1

\* detect_steganography with "detection_score >= 0.6"
detect_steganography_ge(d) ==
  LET stego_detected == d >= 600
      confidence     == IF stego_detected THEN 2 * d ELSE d
      verdict ==
        IF stego_detected
        THEN (IF confidence > 1800 THEN <<"immediate_investigation", "critical">>
              ELSE IF confidence > 1600 THEN <<"detailed_analysis", "high">>
              ELSE <<"monitor", "medium">>)
        ELSE <<"no_action", "low">>
  IN  [steganography_detected |-> stego_detected,
       confidence             |-> round_2(confidence, 2000),
       detection_score        |-> round_2(d, 1000),
       recommended_action     |-> verdict[1],
       risk_level             |-> verdict[2]]

detect_steganography(d) ==
  LET stego_detected == d > 600
      \* detection_score if stego_detected else detection_score * 0.5
      confidence     == IF stego_detected THEN 2 * d ELSE d
      verdict ==
        IF stego_detected
        THEN (IF confidence > 1800 THEN <<"immediate_investigation", "critical">>
              ELSE IF confidence > 1600 THEN <<"detailed_analysis", "high">>
              ELSE <<"monitor", "medium">>)
        ELSE <<"no_action", "low">>
  IN  [steganography_detected |-> stego_detected,
       confidence             |-> round_2(confidence, 2000),
       detection_score        |-> round_2(d, 1000),
       recommended_action     |-> verdict[1],
       risk_level             |-> verdict[2]]

-----------------------------------------------------------------------------
(* HTTP handlers (routes/text_steg.py).  A JSON body is a record of the    *)
(* fields it holds, every text field a string; an answer is the status and *)
(* the fields of the JSON answer, a confidence a number of hundredths.     *)

\* data.get('method', 'auto')
get_method(data) == IF "method" \in DOMAIN data THEN data.method ELSE "auto"

\* jsonify({'error': ...}), status
error_response(status, error) ==
  [status |-> status, success |-> FALSE, stego_text |-> <<>>,
   extracted_message |-> <<>>, method_used |-> "none", confidence |-> 0,
   message |-> "none", error |-> error]

\* jsonify({'success': True, 'extracted_message': ..., ...})
extracted_response(extracted_message, method_used, confidence, note) ==
  [status |-> 200, success |-> TRUE, stego_text |-> <<>>,
   extracted_message |-> extracted_message, method_used |-> method_used,
   confidence |-> confidence, message |-> note, error |-> "none"]

\* embed_text that hands the method of the request to embed_message as it is
embed_text_no_auto(data) ==
  IF \/ DOMAIN data = {}
     \/ "cover_text" \notin DOMAIN data
     \/ "secret_message" \notin DOMAIN data
  THEN error_response(400, "Missing required fields: cover_text, secret_message")
  ELSE LET out == embed_message(data.cover_text, data.secret_message,
                                get_method(data))
       IN  IF out.ok
           THEN [status |-> 200, success |-> TRUE, stego_text |-> out.value,
                 extracted_message |-> <<>>, method_used |-> get_method(data),
                 confidence |-> 0, message |-> "Text embedded successfully",
                 error |-> "none"]
           ELSE error_response(500, out.error)

\* POST /embed
embed_text(data) ==
  IF \/ DOMAIN data = {}
     \/ "cover_text" \notin DOMAIN data
     \/ "secret_message" \notin DOMAIN data
  THEN error_response(400, "Missing required fields: cover_text, secret_message")
  ELSE LET cover  == data.cover_text
           secret == data.secret_message
           m == IF get_method(data) = "auto"
                THEN analyze_text_for_steganography(cover).recommended_method
                ELSE get_method(data)
           out == embed_message(cover, secret, m)
       IN  IF out.ok
           THEN [status |-> 200, success |-> TRUE, stego_text |-> out.value,
                 extracted_message |-> <<>>, method_used |-> m,
                 confidence |-> 0, message |-> "Text embedded successfully",
                 error |-> "none"]
           \* except Exception as e: jsonify({'error': str(e)}), 500
           ELSE error_response(500, out.error)

\* methods = ['whitespace', 'synonym', 'binary']
methods_reversed == <<"binary", "synonym", "whitespace">>
methods == <<"whitespace", "synonym", "binary">>

\* The JSON value of stego_text is a string or, in a body that also has
\* the field stego_text_type, an array of one-character strings; the field
\* stego_text holds the characters in order either way.
is_string(data) == "stego_text_type" \notin DOMAIN data

\* text_steg.extract_message(stego_text, m) as the handler calls it.  An
\* array of one-character strings is iterated like a string by the
\* whitespace method and has no split() for the other two.
call_extract_message(data, m) ==
  IF is_string(data) THEN extract_message(data.stego_text, m)
  ELSE IF m = "whitespace" THEN _extract_whitespace(data.stego_text)
  ELSE IF m \in {"synonym", "binary"} THEN Raise("AttributeError")
  ELSE Raise("ValueError: Unsupported method")

RECURSIVE try_methods(_, _, _)
\* for m in methods: the first non-empty extraction is answered; an
\* extraction that raises is passed over
try_methods(data, k, confidence) ==
  IF k > Len(methods)
  THEN error_response(400, "Could not extract message from text using any method")
  ELSE LET out == call_extract_message(data, methods[k])
       IN  IF out.ok /\ out.value # <<>>
           THEN extracted_response(out.value, methods[k], confidence,
                  "Message extracted successfully using fallback method")
           ELSE try_methods(data, k + 1, confidence)

\* the call of the recommender inside the handler's try block; text.split()
\* raises for an array
try_analyze(data) ==
  IF is_string(data)
  THEN Return(analyze_text_for_steganography(data.stego_text))
  ELSE Raise("AttributeError")

\* extract_text that goes to the fallback order without trying the
\* predicted method
extract_text_no_prediction(data) ==
  IF DOMAIN data = {} \/ "stego_text" \notin DOMAIN data
  THEN error_response(400, "Missing required field: stego_text")
  ELSE LET m == get_method(data)
       IN  IF m = "auto"
           THEN (IF try_analyze(data).ok THEN try_methods(data, 1, 70)
                 ELSE try_methods(data, 1, 60))
           ELSE LET out == call_extract_message(data, m)
                IN  IF ~out.ok THEN error_response(500, out.error)
                    ELSE IF out.value # <<>>
                         THEN extracted_response(out.value, m, 90,
                                "Message extracted successfully")
                    ELSE error_response(400, "Could not extract message from text")

\* POST /extract
extract_text(data) ==
  IF DOMAIN data = {} \/ "stego_text" \notin DOMAIN data
  THEN error_response(400, "Missing required field: stego_text")
  ELSE LET m == get_method(data)
       IN  IF m = "auto"
           THEN LET analysed == try_analyze(data)
                IN  IF analysed.ok
                    THEN LET predicted_method ==
                               analysed.value.recommended_method
                             out == call_extract_message(data, predicted_method)
                         IN  IF out.ok /\ out.value # <<>>
                             THEN extracted_response(out.value,
                                    predicted_method,
                                    analysed.value.confidence,
                                    "Message extracted successfully using AI prediction")
                             ELSE try_methods(data, 1, 70)
                    \* except Exception as ai_error
                    ELSE try_methods(data, 1, 60)
           ELSE LET out == call_extract_message(data, m)
                IN  IF ~out.ok THEN error_response(500, out.error)
                    ELSE IF out.value # <<>>
                         THEN extracted_response(out.value, m, 90,
                                "Message extracted successfully")
                    ELSE error_response(400, "Could not extract message from text")

-----------------------------------------------------------------------------
(* Inputs. *)

RECURSIVE repeat(_, _)
\* phrase * r
repeat(phrase, r) == IF r = 0 THEN <<>> ELSE phrase \o repeat(phrase, r - 1)

\* secret messages: NUL, 'A', U+00FF and a character wider than one byte
MsgChars == {NUL, 65, 255, 256}
Messages == UNION {[1..n -> MsgChars] : n \in 0..MaxMsgLen}

\* secret messages of the serialization alone
BitChars == {NUL, 1, 65, 128, 255, 256}
BitMessages == UNION {[1..n -> BitChars] : n \in 0..MaxMsgLen}

\* six-token cover phrases
CoverPhrases ==
  { \* "the The, is\tand (be) has\n"
    <<116, 104, 101, 32, 84, 104, 101, 44, 32, 105, 115, 9, 97, 110, 100, 32, 40, 98, 101, 41, 32, 104, 97, 115, 10>>,
    \* "were can  Should x though were "
    <<119, 101, 114, 101, 32, 99, 97, 110, 32, 32, 83, 104, 111, 117, 108, 100, 32, 120, 32, 116, 104, 111, 117, 103, 104, 32, 119, 101, 114, 101, 32>>,
    \* "Cat! a1B 12 x ab.c A "
    <<67, 97, 116, 33, 32, 97, 49, 66, 32, 49, 50, 32, 120, 32, 97, 98, 46, 99, 32, 65, 32>>,
    \* "Dog ªb cat ª x Y "
    <<68, 111, 103, 32, 170, 98, 32, 99, 97, 116, 32, 170, 32, 120, 32, 89, 32>>,
    \* "This\tand also furthermore the THE "
    <<84, 104, 105, 115, 9, 97, 110, 100, 32, 97, 108, 115, 111, 32, 102, 117, 114, 116, 104, 101, 114, 109, 111, 114, 101, 32, 116, 104, 101, 32, 84, 72, 69, 32>>,
    \* " \tOne\ntwo\x0bthree\xa0four five\t\tsix\t"
    <<32, 9, 79, 110, 101, 10, 116, 119, 111, 11, 116, 104, 114, 101, 101, 160, 102, 111, 117, 114, 32, 102, 105, 118, 101, 9, 9, 115, 105, 120, 9>> }

Covers == {repeat(phrase, r) : phrase \in CoverPhrases, r \in 0..MaxRep}

Methods == {"whitespace", "synonym", "binary"}
\* what a caller may pass as method
MethodArgs == Methods \cup {"rot13"}

\* ten-word phrases of analysed texts
TextPhrases ==
  { \* 48 characters, no function word
    <<97, 98, 32, 99, 100, 32, 101, 102, 32, 103, 104, 32, 105, 106, 32, 107, 108, 32, 109, 110, 32, 111, 112, 32, 113, 114, 32, 115, 116, 117, 118, 119, 120, 121, 122, 97, 98, 99, 100, 101, 102, 103, 104, 105, 106, 107, 108, 32>>,
    \* 20 characters, no function word
    <<97, 32, 98, 32, 99, 32, 100, 32, 101, 32, 102, 32, 103, 32, 104, 32, 105, 32, 106, 32>>,
    \* four function words in ten
    <<84, 104, 101, 32, 99, 97, 116, 32, 105, 115, 32, 111, 110, 32, 97, 32, 109, 97, 116, 32, 97, 110, 100, 32, 119, 101, 32, 100, 111, 32, 103, 111, 32>>,
    \* five function words in ten
    <<116, 104, 101, 32, 99, 97, 116, 32, 105, 115, 32, 111, 110, 32, 97, 32, 109, 97, 116, 32, 97, 110, 100, 32, 119, 101, 32, 100, 111, 32, 98, 101, 46, 32>> }

\* the k-th of a family of distinct words of len letters, len >= 2
distinct_word(k, len) ==
  [i \in 1..(len - 2) |-> 96 + i] \o <<97 + (k \div 26), 97 + (k % 26)>>

\* n distinct words of len letters each
distinct_text(n, len) ==
  join(<<SPACE>>, [k \in 1..n |-> distinct_word(k, len)])

Texts ==
  {repeat(phrase, r) : phrase \in TextPhrases, r \in 0..MaxTextRep}
    \cup {distinct_text(n, len) : n \in {29, 30, 31}, len \in {6, 7}}

\* draws of random.random(), in thousandths: around every threshold, and
\* the halves of a hundredth that a float holds exactly (0.125, 0.625,
\* 0.875)
Draws == {0, 250, 599, 600, 601, 604, 625, 799, 800, 801, 804, 875, 899,
          900, 901, 904, 906, 999}

\* texts of 0, 1, 2, ... one-word repetitions: 'ab ab ...' has no function
\* word, 'the the ...' has nothing else
PairTexts ==
  {repeat(<<97, 98, 32>>, r) : r \in 0..MaxPairWords}
    \cup {repeat(<<116, 104, 101, 32>>, r) : r \in 28..MaxPairWords}

\* cover texts of requests: none, and "the The, is\tand (be) has\n"
ShortCovers ==
  { <<>>,
    <<116, 104, 101, 32, 84, 104, 101, 44, 32, 105, 115, 9, 97, 110, 100, 32, 40, 98, 101, 41, 32, 104, 97, 115, 10>> }

\* one cover text for each rule of the recommender but the first: thirty
\* times 'the', thirty distinct words of seven letters, thirty words of one
\* letter, 210 words in 1008 characters
RuleCovers ==
  { repeat(<<116, 104, 101, 32>>, 30),
    distinct_text(30, 7),
    repeat(<<97, 32, 98, 32, 99, 32, 100, 32, 101, 32, 102, 32, 103, 32, 104, 32, 105, 32, 106, 32>>, 3),
    repeat(<<97, 98, 32, 99, 100, 32, 101, 102, 32, 103, 104, 32, 105, 106, 32, 107, 108, 32, 109, 110, 32, 111, 112, 32, 113, 114, 32, 115, 116, 117, 118, 119, 120, 121, 122, 97, 98, 99, 100, 101, 102, 103, 104, 105, 106, 107, 108, 32>>, 21) }

\* cover texts of whitespace alone: " \t\n"
BlankCovers == {<<32, 9, 10>>}

\* texts that are read with a tail: none, "the The, is\tand (be) has\n",
\* "This\tand also furthermore the THE ", "Cat! a1B 12 x ab.c A ",
\* "x\t  \t \t\t x\t \t\t   \t\t"
TailCovers ==
  { <<>>,
    <<116, 104, 101, 32, 84, 104, 101, 44, 32, 105, 115, 9, 97, 110, 100, 32, 40, 98, 101, 41, 32, 104, 97, 115, 10>>,
    <<84, 104, 105, 115, 9, 97, 110, 100, 32, 97, 108, 115, 111, 32, 102, 117, 114, 116, 104, 101, 114, 109, 111, 114, 101, 32, 116, 104, 101, 32, 84, 72, 69, 32>>,
    <<67, 97, 116, 33, 32, 97, 49, 66, 32, 49, 50, 32, 120, 32, 97, 98, 46, 99, 32, 65, 32>>,
    <<120, 9, 32, 32, 9, 32, 9, 9, 32, 120, 9, 32, 9, 9, 32, 32, 32, 9, 9>> }

\* tails: none, "X\tY", and nine times "Furthermore\t" before sixteen times
\* "and ", which every method reads as nine 1 and then sixteen 0
Tails ==
  { <<>>,
    <<88, 9, 89>>,
    repeat(<<70, 117, 114, 116, 104, 101, 114, 109, 111, 114, 101, 9>>, 9)
      \o repeat(<<97, 110, 100, 32>>, 16) }

\* secret messages of requests: none, 'A'
ApiSecrets == {<<>>, <<65>>}

\* a JSON body without fields
EmptyBody == [field \in {} |-> <<>>]

\* bodies of POST /embed: method left out, "auto", named; fields missing
EmbedRequests ==
  {[cover_text |-> c, secret_message |-> x] :
     c \in ShortCovers \cup RuleCovers, x \in ApiSecrets}
  \cup {[cover_text |-> c, secret_message |-> x, method |-> "auto"] :
     c \in ShortCovers \cup RuleCovers, x \in ApiSecrets}
  \cup {[cover_text |-> c, secret_message |-> x, method |-> m] :
     c \in ShortCovers, x \in ApiSecrets, m \in MethodArgs}
  \cup {[cover_text |-> c] : c \in ShortCovers}
  \cup {[secret_message |-> x, method |-> "auto"] : x \in ApiSecrets}
  \cup {EmptyBody}
  \cup {[cover_text |-> c, secret_message |-> x] :
          c \in BlankCovers, x \in ApiSecrets}
  \cup {[cover_text |-> c, secret_message |-> x, method |-> m] :
          c \in BlankCovers, x \in ApiSecrets, m \in {"auto", "whitespace"}}

\* texts of POST /extract that no embed produced: none,
\* "Dog ªb cat ª x Y Dog ªb cat ª x Y ", "x\t  \t \t\t x\t \t\t   \t\t"
RawTexts ==
  { <<>>,
    <<68, 111, 103, 32, 170, 98, 32, 99, 97, 116, 32, 170, 32, 120, 32, 89, 32, 68, 111, 103, 32, 170, 98, 32, 99, 97, 116, 32, 170, 32, 120, 32, 89, 32>>,
    <<120, 9, 32, 32, 9, 32, 9, 9, 32, 120, 9, 32, 9, 9, 32, 32, 32, 9, 9>> }

\* bodies of POST /extract
ExtractRequests ==
  {[stego_text |-> s] : s \in RawTexts}
  \cup {[stego_text |-> s, method |-> m] :
     s \in RawTexts, m \in MethodArgs \cup {"auto"}}
  \cup {[method |-> "auto"], EmptyBody}
  \cup {[stego_text |-> s, stego_text_type |-> "array"] : s \in RawTexts}
  \cup {[stego_text |-> s, stego_text_type |-> "array", method |-> m] :
          s \in RawTexts, m \in {"auto", "whitespace", "synonym"}}

\* the calls that threads make on the shared instances
ThreadCalls ==
  {[op |-> "embed", cover_text |-> c, secret_message |-> <<65>>,
    method |-> m] : c \in ShortCovers \ {<<>>}, m \in Methods}
  \cup {[op |-> "extract", stego_text |-> s, method |-> m] :
          s \in RawTexts \ {<<>>}, m \in {"whitespace", "binary"}}
  \cup {[op |-> "analyze", text |-> t] :
          t \in {<<>>, repeat(<<116, 104, 101, 32>>, 30)}}
  \cup {[op |-> "detect"]}

\* cover texts of one word, a key of the synonym table
KeyCovers == {synonyms[k].key : k \in 1..Len(synonyms)}

\* secret messages whose first bit is 0 and 1: none, U+00FF
FirstBitMessages == {<<>>, <<255>>}

\* the texts and the draws of a run of several calls
SomeTexts == {<<>>, distinct_text(30, 7), repeat(<<116, 104, 101, 32>>, 30)}
SomeDraws == {0, 950}

NotCalled == [ok |-> FALSE, value |-> <<>>, error |-> "not called"]
NoAnalysis == [word_count |-> 0, char_count |-> 0, synonym_word_count |-> 0,
               recommended_method |-> "none", confidence |-> 0,
               estimated_capacity |-> 0]
NoDetection == [steganography_detected |-> FALSE, confidence |-> 0,
                detection_score |-> 0, recommended_action |-> "none",
                risk_level |-> "none"]

\* no request received, no answer given
NoRequest == [received |-> FALSE]
NoResponse == [status |-> 0, success |-> FALSE, stego_text |-> <<>>,
               extracted_message |-> <<>>, method_used |-> "none",
               confidence |-> 0, message |-> "none", error |-> "none"]

\* text_steg = TextSteganography(); ai_analyzer = AIAnalyzer()
Constructed ==
  [text_steg   |-> [ai_model |-> "None"],
   ai_analyzer |-> [text_model |-> "None", audio_model |-> "None"]]

\* the threads serving requests, and a thread that runs no call
Threads == 1..NumThreads
Idle == [frame |-> [op |-> "idle"], since |-> 0]

-----------------------------------------------------------------------------
(* Calls of the codec: one embed_message call on the drawn cover and       *)
(* message, then extract_message on what it returned, or extract_message   *)
(* on the cover as it stands.                                              *)

codec_vars == <<cover_text, secret_message, method, stego, stego_text,
                xmethod, extracted>>
bits_vars == <<binary_message, message>>
analyzer_vars == <<text, analysis, random_state, detection, history,
                  draws>>
server_vars == <<request, response, instances, calls>>

InitRest ==
  /\ pc = "init"
  /\ method = "none"
  /\ stego = NotCalled
  /\ stego_text = <<>>
  /\ xmethod = "none"
  /\ extracted = NotCalled
  /\ binary_message = <<>>
  /\ message = <<>>
  /\ analysis = NoAnalysis
  /\ random_state = 0
  /\ detection = NoDetection
  /\ history = <<>>
  /\ draws = <<>>
  /\ request = NoRequest
  /\ response = NoResponse
  /\ instances = Constructed
  /\ calls = [p \in Threads |-> Idle]

Init ==
  /\ cover_text \in Covers
  /\ secret_message \in Messages
  /\ text = <<>>
  /\ InitRest

EmbedCall(m) ==
  /\ method' = m
  /\ stego' = embed_message(cover_text, secret_message, m)
  /\ pc' = "embedded"
  /\ UNCHANGED <<cover_text, secret_message, stego_text, xmethod, extracted>>
  /\ UNCHANGED bits_vars
  /\ UNCHANGED analyzer_vars
  /\ UNCHANGED server_vars

\* extract_message on the text the embed call returned
ExtractStego(m) ==
  /\ pc = "embedded"
  /\ stego.ok
  /\ stego_text' = stego.value
  /\ xmethod' = m
  /\ extracted' = extract_message(stego.value, m)
  /\ pc' = "extracted"
  /\ UNCHANGED <<cover_text, secret_message, method, stego>>
  /\ UNCHANGED bits_vars
  /\ UNCHANGED analyzer_vars
  /\ UNCHANGED server_vars

\* extract_message on a text no embed call produced
ExtractRaw(m) ==
  /\ pc = "init"
  /\ stego_text' = cover_text
  /\ xmethod' = m
  /\ extracted' = extract_message(cover_text, m)
  /\ pc' = "extracted"
  /\ UNCHANGED <<cover_text, secret_message, method, stego>>
  /\ UNCHANGED bits_vars
  /\ UNCHANGED analyzer_vars
  /\ UNCHANGED server_vars

Next ==
  \/ \E m \in MethodArgs : pc = "init" /\ EmbedCall(m)
  \/ \E m \in MethodArgs : ExtractStego(m)
  \/ \E m \in MethodArgs : ExtractRaw(m)

Spec == Init /\ [][Next]_vars

-----------------------------------------------------------------------------
(* The bit serialization alone. *)

InitBits ==
  /\ secret_message \in BitMessages
  /\ cover_text = <<>>
  /\ text = <<>>
  /\ InitRest

Encode ==
  /\ pc = "init"
  /\ binary_message' = message_to_binary(secret_message)
  /\ pc' = "encoded"
  /\ UNCHANGED message
  /\ UNCHANGED codec_vars
  /\ UNCHANGED analyzer_vars
  /\ UNCHANGED server_vars

Decode ==
  /\ pc = "encoded"
  /\ message' = binary_to_message(binary_message)
  /\ pc' = "decoded"
  /\ UNCHANGED binary_message
  /\ UNCHANGED codec_vars
  /\ UNCHANGED analyzer_vars
  /\ UNCHANGED server_vars

NextBits == Encode \/ Decode

SpecBits == InitBits /\ [][NextBits]_vars

-----------------------------------------------------------------------------
(* Calls of the analyzer. *)

AnalyzeCall(t) ==
  /\ text' = t
  /\ analysis' = analyze_text_for_steganography(t)
  /\ history' = Append(history,
       [op |-> "analyze", text |-> t, result |-> analysis'])
  /\ pc' = "analyzed"
  /\ UNCHANGED <<random_state, detection, draws>>
  /\ UNCHANGED codec_vars
  /\ UNCHANGED bits_vars
  /\ UNCHANGED server_vars

\* d is what random.random() returns, in thousandths
DetectCall(d) ==
  /\ random_state' = random_state + 1
  /\ draws' = Append(draws, d)
  /\ detection' = detect_steganography(d)
  /\ history' = Append(history,
       [op |-> "detect", text |-> <<>>, result |-> detection'])
  /\ pc' = "detected"
  /\ UNCHANGED <<text, analysis>>
  /\ UNCHANGED codec_vars
  /\ UNCHANGED bits_vars
  /\ UNCHANGED server_vars

\* one call of the recommender
InitRec ==
  /\ text = <<>>
  /\ cover_text = <<>>
  /\ secret_message = <<>>
  /\ InitRest

NextRec == \E t \in Texts : pc = "init" /\ AnalyzeCall(t)

SpecRec == InitRec /\ [][NextRec]_vars

\* several calls on the shared instances, in any order
InitCalls ==
  /\ text = <<>>
  /\ cover_text = <<116, 104, 101, 32>>
  /\ secret_message \in {<<>>, <<65>>}
  /\ InitRest

NextCalls ==
  \/ \E t \in SomeTexts : Len(history) < MaxCalls /\ AnalyzeCall(t)
  \/ \E d \in SomeDraws : Len(history) < MaxCalls /\ DetectCall(d)
  \/ \E m \in Methods : method = "none" /\ EmbedCall(m)

SpecCalls == InitCalls /\ [][NextCalls]_vars

-----------------------------------------------------------------------------
(* Requests to the HTTP handlers: one POST /embed, then POST /extract on   *)
(* the text it answered; or one POST /extract on a text as it stands.      *)

\* the handler reaches its call of the recommender on the text field
runs_recommender(data, field) ==
  /\ field \in DOMAIN data
  /\ field = "cover_text" => "secret_message" \in DOMAIN data
  /\ get_method(data) = "auto"

EmbedRequest(data) ==
  /\ request' = [received |-> TRUE, route |-> "/embed", data |-> data]
  /\ response' = embed_text(data)
  /\ IF runs_recommender(data, "cover_text")
     THEN /\ text' = data.cover_text
          /\ analysis' = analyze_text_for_steganography(data.cover_text)
     ELSE UNCHANGED <<text, analysis>>
  \* the handler's call of embed_message, with the method it settled on
  /\ IF "cover_text" \in DOMAIN data /\ "secret_message" \in DOMAIN data
     THEN LET m == IF get_method(data) = "auto"
                   THEN analyze_text_for_steganography(data.cover_text)
                          .recommended_method
                   ELSE get_method(data)
          IN  /\ cover_text' = data.cover_text
              /\ secret_message' = data.secret_message
              /\ method' = m
              /\ stego' = embed_message(data.cover_text,
                                        data.secret_message, m)
     ELSE UNCHANGED <<cover_text, secret_message, method, stego>>
  /\ pc' = "responded"
  /\ UNCHANGED <<random_state, detection, history, draws, instances, calls>>
  /\ UNCHANGED <<stego_text, xmethod, extracted>>
  /\ UNCHANGED bits_vars

ExtractRequest(data) ==
  /\ request' = [received |-> TRUE, route |-> "/extract", data |-> data]
  /\ response' = extract_text(data)
  /\ IF runs_recommender(data, "stego_text") /\ try_analyze(data).ok
     THEN /\ text' = data.stego_text
          /\ analysis' = analyze_text_for_steganography(data.stego_text)
     ELSE UNCHANGED <<text, analysis>>
  /\ pc' = "responded"
  /\ UNCHANGED <<random_state, detection, history, draws, instances, calls>>
  /\ UNCHANGED codec_vars
  /\ UNCHANGED bits_vars

\* the client sends back the text that POST /embed answered
embedded(m) ==
  IF m = "none" THEN [stego_text |-> response.stego_text]
  ELSE [stego_text |-> response.stego_text, method |-> m]

NextApi ==
  \/ \E data \in EmbedRequests : pc = "init" /\ EmbedRequest(data)
  \/ \E data \in ExtractRequests : pc = "init" /\ ExtractRequest(data)
  \/ \E m \in MethodArgs \cup {"auto", "none"} :
       /\ request.received
       /\ request.route = "/embed"
       /\ response.success
       /\ ExtractRequest(embedded(m))

SpecApi == InitRec /\ [][NextApi]_vars

-----------------------------------------------------------------------------
(* Threads calling the shared instances, each serving one request.  A call *)
(* binds its arguments to locals of its own frame when it begins and       *)
(* returns when it ends; calls of other threads begin and end in between.  *)
(* No statement of a call reads or writes anything but its frame, except   *)
(* the detector's draw.                                                    *)

\* what the call returns, from the locals of its frame
run(c) ==
  IF c.op = "embed"
  THEN embed_message(c.cover_text, c.secret_message, c.method)
  ELSE IF c.op = "extract" THEN extract_message(c.stego_text, c.method)
  ELSE analyze_text_for_steganography(c.text)

\* a thread serves one request, which makes one call
CallBegin(p, c) ==
  /\ calls[p] = Idle
  /\ \A i \in 1..Len(history) : history[i].thread # p
  \* since: how many calls had returned when this one began
  /\ calls' = [calls EXCEPT ![p] = [frame |-> c, since |-> Len(history)]]
  /\ UNCHANGED <<pc, request, response, instances>>
  /\ UNCHANGED codec_vars
  /\ UNCHANGED bits_vars
  /\ UNCHANGED analyzer_vars

\* embed_message, extract_message or analyze_text_for_steganography returns
CallEnd(p) ==
  /\ calls[p] # Idle
  /\ calls[p].frame.op # "detect"
  /\ history' = Append(history,
       [thread |-> p, call |-> calls[p].frame, since |-> calls[p].since,
        result |-> run(calls[p].frame)])
  /\ calls' = [calls EXCEPT ![p] = Idle]
  /\ UNCHANGED <<pc, request, response, instances>>
  /\ UNCHANGED <<text, analysis, random_state, detection, draws>>
  /\ UNCHANGED codec_vars
  /\ UNCHANGED bits_vars

\* detect_steganography draws d and returns
DetectEnd(p, d) ==
  /\ calls[p] # Idle
  /\ calls[p].frame.op = "detect"
  /\ random_state' = random_state + 1
  /\ draws' = Append(draws, d)
  /\ history' = Append(history,
       [thread |-> p, call |-> calls[p].frame, since |-> calls[p].since,
        result |-> detect_steganography(d)])
  /\ calls' = [calls EXCEPT ![p] = Idle]
  /\ UNCHANGED <<pc, request, response, instances>>
  /\ UNCHANGED <<text, analysis, detection>>
  /\ UNCHANGED codec_vars
  /\ UNCHANGED bits_vars

NextThreads ==
  \/ \E p \in Threads, c \in ThreadCalls : CallBegin(p, c)
  \/ \E p \in Threads : CallEnd(p)
  \/ \E p \in Threads, d \in SomeDraws : DetectEnd(p, d)

SpecThreads == InitRec /\ [][NextThreads]_vars

\* the synonym method on each key of its table: the key carries the first
\* bit of the message, dummy words the other bits
InitTable ==
  /\ cover_text \in KeyCovers
  /\ secret_message \in FirstBitMessages
  /\ text = <<>>
  /\ InitRest

NextTable ==
  \/ pc = "init" /\ EmbedCall("synonym")
  \/ ExtractStego("synonym")

SpecTable == InitTable /\ [][NextTable]_vars

\* extract_message on s + ' ' + t, s being the text the embed call returned
\* or, before any embed call, the cover text
ExtractAppended(m, t) ==
  /\ pc \in {"init", "embedded"}
  /\ pc = "embedded" => stego.ok
  /\ LET s == IF pc = "init" THEN cover_text ELSE stego.value
     IN  /\ stego_text' = s \o <<SPACE>> \o t
         /\ extracted' = extract_message(s \o <<SPACE>> \o t, m)
  /\ xmethod' = m
  /\ pc' = "extracted"
  /\ UNCHANGED <<cover_text, secret_message, method, stego>>
  /\ UNCHANGED bits_vars
  /\ UNCHANGED analyzer_vars
  /\ UNCHANGED server_vars

InitTail ==
  /\ cover_text \in TailCovers
  /\ secret_message \in Messages
  /\ text = <<>>
  /\ InitRest

NextTail ==
  \/ \E m \in Methods : pc = "init" /\ EmbedCall(m)
  \/ \E m \in Methods, t \in Tails : ExtractAppended(m, t)

SpecTail == InitTail /\ [][NextTail]_vars

\* two calls of the detector, one after the other
NextDetect == \E d \in Draws : Len(draws) < 2 /\ DetectCall(d)

SpecDetect == InitRec /\ [][NextDetect]_vars

\* two calls of the recommender, one after the other
NextPair == \E t \in PairTexts : Len(history) < 2 /\ AnalyzeCall(t)

SpecPair == InitRec /\ [][NextPair]_vars

-----------------------------------------------------------------------------
(* Properties of the codec, under Spec. *)

\* every character fits one byte and none is 0x00
OneByteNoNul(secret) == \A i \in 1..Len(secret) : secret[i] \in 1..255

\* the bit string of a payload of bytes
PayloadBits(secret) == 8 * Len(secret) + 8

\* the round trip embed_message then extract_message, both with method m
RoundTrip(m) == pc = "extracted" /\ method = m /\ xmethod = m

\* the bits extract_message reads from text s with method m
ReadBits(s, m) ==
  IF m = "whitespace" THEN whitespace_bits(s)
  ELSE IF m = "synonym" THEN synonym_bits(s)
  ELSE binary_bits(s)

\* the value of the k-th aligned 8-bit group of bits, k >= 1
GroupValue(bits, k) ==
  LET b(j) == IF bits[8 * (k - 1) + j] = "1" THEN 1 ELSE 0
  IN  128 * b(1) + 64 * b(2) + 32 * b(3) + 16 * b(4)
        + 8 * b(5) + 4 * b(6) + 2 * b(7) + b(8)

\* the complete groups of bits that are all zero
ZeroGroups(bits) == {k \in 1..(Len(bits) \div 8) : GroupValue(bits, k) = 0}

\* the least element of a non-empty set of numbers
Least(S) == CHOOSE k \in S : \A j \in S : k <= j

\* C1: whitespace round trip.  For a cover with at least one word and a
\* payload of one-byte characters without 0x00, extracting with
\* 'whitespace' what 'whitespace' embedded returns the payload.
C1_WhitespaceRoundTrip ==
  (/\ RoundTrip("whitespace")
   /\ Len(split(cover_text)) >= 1
   /\ OneByteNoNul(secret_message))
    => (stego.ok /\ extracted = Return(secret_message))

\* a round trip of a non-empty payload through a cover with fewer gaps
\* than bits
C1_Witness ==
  /\ RoundTrip("whitespace")
  /\ Len(split(cover_text)) \in 1..PayloadBits(secret_message)
  /\ OneByteNoNul(secret_message)
  /\ secret_message # <<>>
  /\ extracted = Return(secret_message)

\* the cover tokens that are keys of the synonym table
KeyTokens(cover) ==
  {k \in 1..Len(split(cover)) : is_key(clean_of(split(cover)[k]))}

\* some token of the cover is one of the dummy words
CollidesWithDummies(cover) ==
  \E k \in 1..Len(split(cover)) :
    clean_of(split(cover)[k]) \in {DUMMY_ZERO, FURTHERMORE}

\* C2: synonym round trip.  For a payload without 0x00 and a cover with at
\* least len(payload)*8 + 8 function words, none of them colliding with
\* the dummy tokens, extracting with 'synonym' what 'synonym' embedded
\* returns the payload.
C2_SynonymRoundTrip ==
  (/\ RoundTrip("synonym")
   /\ OneByteNoNul(secret_message)
   /\ Cardinality(KeyTokens(cover_text)) >= PayloadBits(secret_message)
   /\ ~CollidesWithDummies(cover_text))
    => extracted = Return(secret_message)

\* the cover tokens that carry a bit of the capitalization method
Carriers(cover, secret) ==
  {k \in 1..Len(split(cover)) : k <= Len(message_to_binary(secret))}

\* the letters of a token
Letters(word) == SelectSeq(word, LAMBDA c : isalpha(c))

\* a letter with an upper-case and a lower-case form
Cased(c) == c \in (65..90) \cup (97..122)

\* C3 as claimed: capitalization round trip, for a payload without 0x00
\* and a cover in which every token that carries a bit holds a letter.
C3_BinaryRoundTrip_AnyLetter ==
  (/\ RoundTrip("binary")
   /\ OneByteNoNul(secret_message)
   /\ \A k \in Carriers(cover_text, secret_message) :
        Letters(split(cover_text)[k]) # <<>>)
    => extracted = Return(secret_message)

\* C3: capitalization round trip.  For a payload of one-byte characters
\* without 0x00 and a cover, shorter than the bit string or not, in which
\* the first letter of every token that carries a bit has an upper-case
\* and a lower-case form, extracting with 'binary' what 'binary' embedded
\* returns the payload.
C3_BinaryRoundTrip ==
  (/\ RoundTrip("binary")
   /\ OneByteNoNul(secret_message)
   /\ \A k \in Carriers(cover_text, secret_message) :
        /\ Letters(split(cover_text)[k]) # <<>>
        /\ Cased(Letters(split(cover_text)[k])[1]))
    => extracted = Return(secret_message)

\* a round trip through a cover shorter than the bit string, with a
\* capitalized and punctuated token set to lower case
C3_Witness ==
  /\ RoundTrip("binary")
  /\ OneByteNoNul(secret_message)
  /\ secret_message # <<>>
  /\ Len(split(cover_text)) \in 1..(PayloadBits(secret_message) - 1)
  /\ \A k \in Carriers(cover_text, secret_message) :
       /\ Letters(split(cover_text)[k]) # <<>>
       /\ Cased(Letters(split(cover_text)[k])[1])
  /\ \E k \in Carriers(cover_text, secret_message) :
       /\ isupper(split(cover_text)[k][1])
       /\ split(stego.value)[k] # split(cover_text)[k]
  /\ extracted = Return(secret_message)

\* C5: unsupported method.  embed_message and extract_message raise the
\* unsupported-method error for a method that is none of the three
\* literals, and return what the method of that name returns otherwise.
C5_UnsupportedMethod ==
  /\ method # "none" =>
       /\ method \notin Methods =>
            stego = Raise("ValueError: Unsupported method")
       /\ method = "whitespace" =>
            stego = _embed_whitespace(cover_text, secret_message)
       /\ method = "synonym" =>
            stego = _embed_synonym(cover_text, secret_message)
       /\ method = "binary" =>
            stego = _embed_binary(cover_text, secret_message)
  /\ xmethod # "none" =>
       /\ xmethod \notin Methods =>
            extracted = Raise("ValueError: Unsupported method")
       /\ xmethod = "whitespace" => extracted = _extract_whitespace(stego_text)
       /\ xmethod = "synonym" => extracted = _extract_synonym(stego_text)
       /\ xmethod = "binary" => extracted = _extract_binary(stego_text)

\* embed_message has run a supported method and extract_message has
\* refused 'rot13'
C5_Witness ==
  /\ pc = "extracted"
  /\ method \in Methods
  /\ stego.ok
  /\ xmethod = "rot13"
  /\ extracted = Raise("ValueError: Unsupported method")

\* C6 as claimed: extract_message returns the empty string whenever the
\* bits read hold no all-zero byte, or the text has nothing embeddable.
C6_EmptyWithoutTerminator ==
  (/\ pc = "extracted"
   /\ xmethod \in Methods
   /\ ZeroGroups(ReadBits(stego_text, xmethod)) = {})
    => extracted = Return(<<>>)

\* C6: extract_message raises no error for any of the three methods; when
\* the bits read hold no all-zero byte it returns one character per
\* complete 8-bit group, which is the empty string exactly when fewer than
\* eight bits were read, as for a text with nothing embeddable.
C6_ExtractWithoutTerminator ==
  (pc = "extracted" /\ xmethod \in Methods) =>
    /\ extracted.ok
    /\ ZeroGroups(ReadBits(stego_text, xmethod)) = {} =>
         /\ Len(extracted.value) = Len(ReadBits(stego_text, xmethod)) \div 8
         /\ extracted.value = <<>> <=> Len(ReadBits(stego_text, xmethod)) < 8

\* a text that carries some bits, fewer than eight, gives the empty string
C6_Witness ==
  /\ pc = "extracted"
  /\ xmethod \in Methods
  /\ Len(ReadBits(stego_text, xmethod)) \in 1..7
  /\ extracted = Return(<<>>)

\* the decoding the claim describes: the values of the complete groups
\* before the first all-zero one
GroupsBeforeTerminator(bits) ==
  LET zeros == ZeroGroups(bits)
      stop  == IF zeros = {} THEN Len(bits) \div 8 + 1 ELSE Least(zeros)
  IN  [k \in 1..(stop - 1) |-> GroupValue(bits, k)]

\* C7: best-effort decode.  For every text and each of the three methods
\* extract_message returns without raising, and returns the bits it read,
\* taken in aligned groups of eight from the left, up to the first
\* all-zero group or else to the last complete group.
C7_BestEffortDecode ==
  (pc = "extracted" /\ xmethod \in Methods) =>
    /\ extracted.ok
    /\ extracted.value =
         GroupsBeforeTerminator(ReadBits(stego_text, xmethod))

\* bits with an incomplete last group and an all-zero group after a
\* decoded one
C7_Witness ==
  /\ pc = "extracted"
  /\ xmethod \in Methods
  /\ Len(ReadBits(stego_text, xmethod)) % 8 # 0
  /\ ZeroGroups(ReadBits(stego_text, xmethod)) # {}
  /\ Least(ZeroGroups(ReadBits(stego_text, xmethod))) > 1
  /\ extracted.value # <<>>

-----------------------------------------------------------------------------
(* Properties of the bit serialization, under SpecBits. *)

\* every character fits one byte
OneByte(secret) == \A i \in 1..Len(secret) : secret[i] \in 0..255

RECURSIVE Power2(_)
Power2(n) == IF n = 0 THEN 1 ELSE 2 * Power2(n - 1)

\* the part of a payload before its first 0x00
BeforeNul(secret) ==
  LET nuls == {i \in 1..Len(secret) : secret[i] = NUL}
  IN  IF nuls = {} THEN secret ELSE SubSeq(secret, 1, Least(nuls) - 1)

\* C4: terminator semantics.  The bit string of a payload of bytes is the
\* eight bits of each byte, most significant first, then eight '0'; its
\* decoding is the payload up to its first 0x00, the whole payload when it
\* has none.
C4_TerminatorSemantics ==
  (pc \in {"encoded", "decoded"} /\ OneByte(secret_message)) =>
    /\ Len(binary_message) = 8 * Len(secret_message) + 8
    /\ \A i \in 1..Len(secret_message) : \A j \in 1..8 :
         binary_message[8 * (i - 1) + j] = "1"
           <=> (secret_message[i] \div Power2(8 - j)) % 2 = 1
    /\ \A j \in 1..8 : binary_message[8 * Len(secret_message) + j] = "0"
    /\ pc = "decoded" => message = BeforeNul(secret_message)

\* a payload cut at a 0x00 that is not its first byte
C4_Witness ==
  /\ pc = "decoded"
  /\ OneByte(secret_message)
  /\ \E i \in 1..Len(secret_message) : secret_message[i] = NUL
  /\ message # <<>>
  /\ message # secret_message

-----------------------------------------------------------------------------
(* Properties of the recommender, under SpecRec and SpecCalls. *)

\* the positions where a word of t starts
WordStarts(t) ==
  {i \in 1..Len(t) : ~IsSpace(t[i]) /\ (i = 1 \/ IsSpace(t[i - 1]))}

\* the function words the synonym method substitutes
FunctionWords == {synonyms[k].key : k \in 1..Len(synonyms)}

\* the occurrences of function words in t
FunctionWordCount(t) ==
  LET words == split(t)
  IN  Cardinality({k \in 1..Len(words) : clean_of(words[k]) \in FunctionWords})

\* complexity > 0.8, for the average of min(average word length / 10, 1)
\* and distinct lower-cased words / words
HighComplexity(t) ==
  LET words   == split(t)
      n       == Cardinality(WordStarts(t))
      letters == Cardinality({i \in 1..Len(t) : ~IsSpace(t[i])})
      unique  == Cardinality({lower(words[k]) : k \in 1..n})
  IN  n > 0 /\ 5 * (min(letters, 10 * n) + 10 * unique) > 4 * 20 * n

\* the rule table of the claim
RuleTable(t) ==
  LET wordCount    == Cardinality(WordStarts(t))
      charCount    == Len(t)
      synonymCount == FunctionWordCount(t)
  IN  CASE wordCount < 30 -> <<"whitespace", 95>>
        [] wordCount >= 30 /\ 5 * synonymCount > 2 * wordCount
             -> <<"synonym", 90>>
        [] wordCount >= 30 /\ 5 * synonymCount <= 2 * wordCount
             /\ HighComplexity(t) -> <<"synonym", 85>>
        [] wordCount >= 30 /\ 5 * synonymCount <= 2 * wordCount
             /\ ~HighComplexity(t) /\ wordCount > 200 /\ charCount > 1000
             -> <<"binary", 80>>
        [] OTHER -> <<"whitespace", 75>>

\* C8: recommender rule table.  The method and confidence returned are
\* those of the first rule that matches: under 30 words, whitespace 0.95;
\* else function words over 0.4 of the words, synonym 0.9; else complexity
\* over 0.8, synonym 0.85; else over 200 words and over 1000 characters,
\* binary 0.8; else whitespace 0.75.
C8_RuleTable ==
  pc = "analyzed" =>
    /\ <<analysis.recommended_method, analysis.confidence>> = RuleTable(text)
    /\ Cardinality(WordStarts(text)) < 30 =>
         /\ analysis.recommended_method = "whitespace"
         /\ analysis.confidence = 95

\* 250 words and 1200 characters, few function words, low complexity:
\* binary 0.8
C8_Witness ==
  /\ pc = "analyzed"
  /\ analysis.word_count = 250
  /\ analysis.char_count = 1200
  /\ analysis.synonym_word_count = 0
  /\ ~HighComplexity(text)
  /\ analysis.recommended_method = "binary"
  /\ analysis.confidence = 80

\* C10: the estimated capacity is that of the recommended method: words
\* div 3 for whitespace, min(function words, words div 4) for synonym,
\* words div 5 for binary; the synonym capacity is at most words / 4.
C10_CapacityFormula ==
  pc = "analyzed" =>
    LET wordCount    == Cardinality(WordStarts(text))
        synonymCount == FunctionWordCount(text)
        capacity     == analysis.estimated_capacity
    IN  /\ analysis.recommended_method = "whitespace" =>
             capacity = wordCount \div 3
        /\ analysis.recommended_method = "synonym" =>
             /\ capacity = min(synonymCount, wordCount \div 4)
             /\ 4 * capacity <= wordCount
        /\ analysis.recommended_method = "binary" =>
             capacity = wordCount \div 5
        /\ analysis.recommended_method \in Methods

\* synonym recommended for a text with more function words than a quarter
\* of its words
C10_Witness ==
  /\ pc = "analyzed"
  /\ analysis.recommended_method = "synonym"
  /\ analysis.synonym_word_count > analysis.word_count \div 4
  /\ analysis.estimated_capacity = analysis.word_count \div 4
  /\ analysis.estimated_capacity > 0

\* the recommender calls of the run
AnalyzeCalls == {i \in 1..Len(history) : history[i].op = "analyze"}

-----------------------------------------------------------------------------
(* Properties of two recommendations, under SpecPair. *)

\* the recommendations for which whitespace was recommended
WhitespaceCalls ==
  {i \in 1..Len(history) :
     /\ history[i].op = "analyze"
     /\ history[i].result.recommended_method = "whitespace"}

\* C11: of two texts for which whitespace is the recommended method, the one
\* with more words never has the smaller estimated capacity.
C11_CapacityMonotone ==
  \A i, j \in WhitespaceCalls :
    Len(split(history[i].text)) <= Len(split(history[j].text))
      => history[i].result.estimated_capacity
           <= history[j].result.estimated_capacity

\* a text recommended whitespace by the first rule and a longer one
\* recommended whitespace by the last rule, with a larger capacity
C11_Witness ==
  /\ Len(history) = 2
  /\ WhitespaceCalls = {1, 2}
  /\ history[1].result.confidence = 95
  /\ history[2].result.confidence = 75
  /\ Len(split(history[1].text)) < Len(split(history[2].text))
  /\ history[1].result.estimated_capacity
       < history[2].result.estimated_capacity

-----------------------------------------------------------------------------
(* Properties of the HTTP handlers, under SpecApi. *)

\* the last request was a POST /embed holding both texts and asking for
\* method 'auto', or naming none
AutoEmbed ==
  /\ request.received
  /\ request.route = "/embed"
  /\ runs_recommender(request.data, "cover_text")

\* C12: every recommendation names one of the three methods with a
\* confidence in [0,1]; an embed request with method 'auto' or without a
\* method runs the recommender on the cover text, never fails with the
\* unsupported-method error, and when it succeeds its method_used is the
\* recommended method.
C12_AutoEmbedWellFormed ==
  /\ analysis # NoAnalysis =>
       /\ analysis.recommended_method \in Methods
       /\ analysis.confidence \in 0..100
  /\ AutoEmbed =>
       /\ text = request.data.cover_text
       /\ analysis # NoAnalysis
       /\ response.error # "ValueError: Unsupported method"
       /\ response.success =>
            /\ response.status = 200
            /\ response.method_used = analysis.recommended_method
       /\ ~response.success =>
            /\ response.status = 500
            /\ response.method_used = "none"

\* a request without a method was answered with the capitalization method
C12_Witness ==
  /\ AutoEmbed
  /\ "method" \notin DOMAIN request.data
  /\ response.success
  /\ response.method_used = "binary"
  /\ analysis.recommended_method = "binary"

\* the last request was a POST /extract holding a string and asking for
\* method 'auto', or naming none
AutoExtract ==
  /\ request.received
  /\ request.route = "/extract"
  /\ runs_recommender(request.data, "stego_text")
  /\ is_string(request.data)

\* extract_message(s, m) returns a non-empty message
Found(s, m) ==
  LET out == extract_message(s, m) IN out.ok /\ out.value # <<>>

\* the order of the fallback
FallbackOrder == <<"whitespace", "synonym", "binary">>

\* the methods of the fallback that find a message in s, in its order
FallbackHits(s) == SelectSeq(FallbackOrder, LAMBDA m : Found(s, m))

\* C13: when the method the recommender predicts extracts nothing, an auto
\* extract request is answered with the first non-empty extraction among
\* whitespace, synonym, binary, in this order, and that method as
\* method_used; when every method extracts nothing it is answered with
\* status 400 and not with a success.
C13_AutoExtractFallback ==
  AutoExtract =>
    LET s    == request.data.stego_text
        hits == FallbackHits(s)
    IN  ~Found(s, analysis.recommended_method) =>
          IF hits # <<>>
          THEN /\ response.success
               /\ response.status = 200
               /\ response.method_used = hits[1]
               /\ response.extracted_message
                    = extract_message(s, hits[1]).value
          ELSE /\ ~response.success
               /\ response.status = 400

\* the predicted method, whitespace, extracts nothing, synonym and binary
\* both extract something: synonym is answered
C13_Witness ==
  /\ AutoExtract
  /\ analysis.recommended_method = "whitespace"
  /\ ~Found(request.data.stego_text, "whitespace")
  /\ FallbackHits(request.data.stego_text) = <<"synonym", "binary">>
  /\ response.method_used = "synonym"
  /\ response.confidence = 70

-----------------------------------------------------------------------------
(* Properties of interleaved calls, under SpecThreads. *)

\* what a call returns when it is the only call ever made
alone(c) ==
  IF c.op = "embed"
  THEN (IF c.method = "whitespace"
        THEN _embed_whitespace(c.cover_text, c.secret_message)
        ELSE IF c.method = "synonym"
        THEN _embed_synonym(c.cover_text, c.secret_message)
        ELSE _embed_binary(c.cover_text, c.secret_message))
  ELSE IF c.op = "extract"
  THEN (IF c.method = "whitespace" THEN _extract_whitespace(c.stego_text)
        ELSE IF c.method = "synonym" THEN _extract_synonym(c.stego_text)
        ELSE _extract_binary(c.stego_text))
  ELSE analyze_text_for_steganography(c.text)

\* the returned calls of embed_message, extract_message and
\* analyze_text_for_steganography
PureCalls ==
  {i \in 1..Len(history) :
     history[i].call.op \in {"embed", "extract", "analyze"}}

-----------------------------------------------------------------------------
(* Properties of the detector, under SpecDetect. *)

\* the draw of the last detect_steganography call, in thousandths
LastDraw == draws[Len(draws)]

\* the detection, the action and the risk level follow the thresholds on
\* the value given as confidence, a number of thousandths
Thresholds(confidence) ==
  /\ detection.steganography_detected <=> LastDraw > 600
  /\ ~detection.steganography_detected =>
       /\ detection.risk_level = "low"
       /\ detection.recommended_action = "no_action"
  /\ detection.steganography_detected =>
       detection.risk_level =
         IF confidence > 900 THEN "critical"
         ELSE IF confidence > 800 THEN "high"
         ELSE "medium"

\* C15 as stated: the detector reports steganography_detected iff the draw
\* d is above 0.6, risk 'low' and 'no_action' when not detected, and when
\* detected 'critical' for a confidence above 0.9, 'high' above 0.8 and
\* 'medium' otherwise, where the confidence it reports is d when detected
\* and d * 0.5 when not.
C15_DetectorReportsDraw ==
  draws # <<>> =>
    /\ Thresholds(10 * detection.confidence)
    /\ 20 * detection.confidence
         = (IF detection.steganography_detected
            THEN 2 * LastDraw ELSE LastDraw)

\* C15, amended: the detector reports steganography_detected iff the draw
\* d is above 0.6, risk 'low' and 'no_action' when not detected, and when
\* detected 'critical' for d above 0.9, 'high' for d above 0.8 and 'medium'
\* otherwise; the confidence it reports is d when detected and d * 0.5
\* when not, rounded to two decimals.
C15_DetectorThresholds ==
  draws # <<>> =>
    /\ Thresholds(LastDraw)
    /\ detection.confidence
         = (IF detection.steganography_detected
            THEN round_2(LastDraw, 1000) ELSE round_2(LastDraw, 2000))

\* a draw of 0.904 is reported critical with a confidence of 0.9
C15_Witness ==
  /\ draws # <<>>
  /\ LastDraw = 904
  /\ detection.steganography_detected
  /\ detection.risk_level = "critical"
  /\ detection.confidence = 90

-----------------------------------------------------------------------------
(* Properties of the synonym table, under SpecTable. *)

\* the tokens of the stego text that stand for the one cover word: those
\* before the dummy words, of which there is one per bit but the first
EmittedTokens ==
  LET tokens == split(stego.value)
  IN  SubSeq(tokens, 1,
             Len(tokens) - (Len(message_to_binary(secret_message)) - 1))

\* C16: for every table key k and every bit b, what synonym embed emits
\* for a cover word k carrying b is one token, and synonym extract reads it
\* back as exactly the one bit b.
C16_TableUnambiguous ==
  (pc \in {"embedded", "extracted"} /\ method = "synonym" /\ stego.ok) =>
    /\ Len(EmittedTokens) = 1
    /\ synonym_word_bits(EmittedTokens[1])
         = <<message_to_binary(secret_message)[1]>>

-----------------------------------------------------------------------------
(* Properties of the single methods, under Spec. *)

\* embed_message was called with method m
Embedded(m) == pc \in {"embedded", "extracted"} /\ method = m

\* C17: with n >= 1 cover words and L bits the whitespace method returns
\* max(n, L + 1) words, word j being cover word j mod n as it stands, with
\* one character between neighbours and none before or after: after word
\* i a tab if i < L and bit i is 1, a space otherwise.
C17_WhitespaceStructure ==
  (Embedded("whitespace") /\ split(cover_text) # <<>>) =>
    LET words == split(cover_text)
        n     == Len(words)
        bits  == message_to_binary(secret_message)
        out   == split(stego.value)
        seps  == SelectSeq(stego.value, IsSpace)
    IN  /\ stego.ok
        /\ Len(out) = (IF n > Len(bits) + 1 THEN n ELSE Len(bits) + 1)
        /\ \A j \in 0..(Len(out) - 1) : out[j + 1] = words[(j % n) + 1]
        /\ Len(seps) = Len(out) - 1
        /\ Len(stego.value) = sum_len(out, 1, Len(out)) + Len(seps)
        /\ \A i \in 0..(Len(out) - 2) :
             seps[i + 1] = (IF i < Len(bits) /\ bits[i + 1] = "1"
                            THEN TAB ELSE SPACE)

\* 'A' embedded in a cover of more words than bits and one
C17_Witness ==
  /\ Embedded("whitespace")
  /\ secret_message = <<65>>
  /\ Len(split(cover_text)) > Len(message_to_binary(secret_message)) + 1
  /\ stego.ok
  /\ \E i \in 1..Len(stego.value) : stego.value[i] = TAB

\* the spaces and tabs of a text, in text order, as bits
SpaceTabBits(s) ==
  LET seps == SelectSeq(s, LAMBDA c : c \in {SPACE, TAB})
  IN  [k \in 1..Len(seps) |-> IF seps[k] = TAB THEN "1" ELSE "0"]

\* C18: whitespace extract reads one bit per space (0) and per tab (1) of
\* the text, in text order, consecutive, leading and trailing ones
\* included; no other character, newlines and other whitespace included,
\* gives a bit.
C18_WhitespaceExtractBits ==
  (pc = "extracted" /\ xmethod = "whitespace") =>
    /\ whitespace_bits(stego_text) = SpaceTabBits(stego_text)
    /\ extracted = Return(binary_to_message(SpaceTabBits(stego_text)))

\* a message read from a text that begins with a space, ends with a tab
\* and holds two tabs in a row, a newline and a no-break space
C18_Witness ==
  /\ pc = "extracted"
  /\ xmethod = "whitespace"
  /\ stego_text # <<>>
  /\ stego_text[1] = SPACE
  /\ stego_text[Len(stego_text)] = TAB
  /\ \E i \in 1..(Len(stego_text) - 1) :
       stego_text[i] = TAB /\ stego_text[i + 1] = TAB
  /\ \E i \in 1..Len(stego_text) : stego_text[i] \in {10, 160}
  /\ extracted.value # <<>>

\* the positions of the key tokens among the first i cover words
KeysUpTo(words, i) == {j \in 1..i : is_key(clean_of(words[j]))}

\* what the claim has the synonym method emit for cover word i: the
\* alternative for bit k if the word is the k-th key token and there is a
\* bit k, the word as it stands otherwise
EmittedFor(words, bits, i) ==
  LET k == Cardinality(KeysUpTo(words, i))
  IN  IF is_key(clean_of(words[i])) /\ k <= Len(bits)
      THEN substitute(words[i], bits[k])
      ELSE words[i]

\* C19: synonym embed emits every cover token that is no table key, and
\* every key token met once the bits are used up, exactly as in the cover;
\* the k-th key token of the cover carries bit k.
C19_SynonymNonCarriers ==
  (Embedded("synonym") /\ stego.ok) =>
    LET words  == split(cover_text)
        bits   == message_to_binary(secret_message)
        tokens == join(<<SPACE>>,
                    [i \in 1..Len(words) |-> EmittedFor(words, bits, i)])
    IN  /\ Len(tokens) <= Len(stego.value)
        /\ SubSeq(stego.value, 1, Len(tokens)) = tokens
        /\ Cardinality(KeysUpTo(words, Len(words))) >= Len(bits)
             => stego.value = tokens

\* 'A' in "This\tand also furthermore the THE ": the second key token, the
\* fifth word, carries the second bit, a 1
C19_Witness ==
  /\ Embedded("synonym")
  /\ stego.ok
  /\ secret_message = <<65>>
  /\ Len(split(cover_text)) >= 5
  /\ KeysUpTo(split(cover_text), 5) = {2, 5}
  /\ split(stego.value)[4] = split(cover_text)[4]
  /\ split(stego.value)[5] # split(cover_text)[5]

\* the punctuation that trails a token: its longest suffix of characters
\* of the class
TrailingPunctuation(word) ==
  LET others == SelectSeq(Indices(word), LAMBDA i : word[i] \notin PUNCTUATION)
  IN  IF others = <<>> THEN word
      ELSE SubSeq(word, others[Len(others)] + 1, Len(word))

\* what the claim has the synonym method emit for a key token that carries
\* bit: the alternative, its first letter capitalized iff the first
\* character of the token is upper case, then the trailing punctuation
PreservedToken(word, bit) ==
  LET options == options_of(clean_of(word))
      synonym == IF bit = "1" THEN options[2] ELSE options[1]
  IN  (IF isupper(word[1])
       THEN <<upper_char(synonym[1])>> \o SubSeq(synonym, 2, Len(synonym))
       ELSE synonym) \o TrailingPunctuation(word)

\* C20: the token synonym embed emits for a substituted token is the chosen
\* alternative, its first letter capitalized iff the first character of
\* the original token was upper case, followed by exactly the punctuation
\* that trailed the original token.
C20_SynonymPreservesToken ==
  (Embedded("synonym") /\ stego.ok) =>
    LET words  == split(cover_text)
        bits   == message_to_binary(secret_message)
        carries(i) == /\ is_key(clean_of(words[i]))
                      /\ Cardinality(KeysUpTo(words, i)) <= Len(bits)
        tokens == join(<<SPACE>>,
                    [i \in 1..Len(words) |->
                       IF carries(i)
                       THEN PreservedToken(words[i],
                              bits[Cardinality(KeysUpTo(words, i))])
                       ELSE words[i]])
    IN  /\ Len(tokens) <= Len(stego.value)
        /\ SubSeq(stego.value, 1, Len(tokens)) = tokens

\* 'Furthermore' and 'and', spelled out
Furthermore == <<70, 117, 114, 116, 104, 101, 114, 109, 111, 114, 101>>
And == <<97, 110, 100>>

\* C21: with k key tokens in the cover and L bits, synonym embed appends
\* after all cover tokens L - k dummy tokens when L > k, 'Furthermore' for
\* each remaining 1 and 'and' for each remaining 0 in bit order, and none
\* when L <= k; the tokens are joined by single spaces.
C21_SynonymPadding ==
  (Embedded("synonym") /\ stego.ok) =>
    LET words   == split(cover_text)
        bits    == message_to_binary(secret_message)
        k       == Cardinality(KeysUpTo(words, Len(words)))
        emitted == [i \in 1..Len(words) |-> EmittedFor(words, bits, i)]
        dummies == [j \in 1..(IF Len(bits) > k THEN Len(bits) - k ELSE 0) |->
                      IF bits[k + j] = "1" THEN Furthermore ELSE And]
    IN  stego.value = join(<<SPACE>>, emitted \o dummies)

\* 'A' in a cover with some key tokens, fewer than bits: the text ends
\* with the dummy tokens of the last bits, of which the eighth is a 1
C21_Witness ==
  /\ Embedded("synonym")
  /\ stego.ok
  /\ secret_message = <<65>>
  /\ LET k == Cardinality(KeysUpTo(split(cover_text), Len(split(cover_text))))
         out == split(stego.value)
     IN  /\ k > 0
         /\ k < 8
         /\ Len(out) >= 9
         /\ out[Len(out) - 8] = Furthermore
         /\ \A j \in 0..7 : out[Len(out) - j] = And

\* 'furthermore' and 'were', spelled out
LowerFurthermore == <<102, 117, 114, 116, 104, 101, 114, 109, 111, 114, 101>>
Were == <<119, 101, 114, 101>>

\* the table keys whose alternative[0], or alternative[1], is the token c
Alt0Keys(c) == {k \in 1..Len(synonyms) : synonyms[k].options[1] = c}
Alt1Keys(c) ==
  {k \in 1..Len(synonyms) :
     Len(synonyms[k].options) > 1 /\ synonyms[k].options[2] = c}

\* the bits that every clause of the rule, read by itself, allows for c
AnyKeyBits(c) ==
  {b \in {<<>>, <<"0">>, <<"1">>} :
     /\ Alt0Keys(c) # {} => b = <<"0">>
     /\ Alt1Keys(c) # {} => b = <<"1">>
     /\ c = LowerFurthermore => b = <<"1">>
     /\ c = And => b = <<"0">>
     /\ (/\ Alt0Keys(c) = {}
         /\ Alt1Keys(c) = {}
         /\ c \notin {LowerFurthermore, And}) => b = <<>>}

\* the bit of c when the first key, in table order, that has c as its
\* alternative[0] or alternative[1] decides
FirstKeyBits(c) ==
  LET keys == Alt0Keys(c) \cup Alt1Keys(c)
  IN  IF keys # {}
      THEN (IF Least(keys) \in Alt0Keys(c) THEN <<"0">> ELSE <<"1">>)
      ELSE IF c = LowerFurthermore THEN <<"1">>
      ELSE IF c = And THEN <<"0">>
      ELSE <<>>

\* the lowercase form of a token without its leading and trailing
\* punctuation
Stripped(word) == strip(lower(word), PUNCTUATION)

SynonymExtracted == pc = "extracted" /\ xmethod = "synonym"

UpperData == <<68, 97, 116, 97>>
LowerData == <<100, 97, 116, 97>>

\* a token carrying a bit: its letters in order, the first in its
\* upper-case form and the others in lower case for 1, all in lower case
\* for 0, and its other characters in order after them
Carried(word, bit) ==
  LET letters == SelectSeq(word, isalpha)
      others  == SelectSeq(word, LAMBDA c : ~isalpha(c))
  IN  [j \in 1..Len(letters) |->
         IF bit = "1" /\ j = 1 THEN upper_char(letters[j])
         ELSE lower_char(letters[j])] \o others

\* C23: with n cover tokens and L bits, capitalization embed returns
\* max(n, L) tokens joined by single spaces: cover token i carrying bit i
\* for i <= min(n, L), cover token i as it stands for L < i <= n, and for
\* n < i <= L the dummy 'Data' if bit i is 1 and 'data' if it is 0.
C23_BinaryStructure ==
  Embedded("binary") =>
    LET words == split(cover_text)
        n     == Len(words)
        bits  == message_to_binary(secret_message)
        L     == Len(bits)
        out   == [i \in 1..(IF n > L THEN n ELSE L) |->
                    IF i <= n
                    THEN (IF i <= L THEN Carried(words[i], bits[i])
                          ELSE words[i])
                    ELSE (IF bits[i] = "1" THEN UpperData ELSE LowerData)]
    IN  /\ stego.ok
        /\ stego.value = join(<<SPACE>>, out)
        /\ Len(split(stego.value)) = (IF n > L THEN n ELSE L)

\* more tokens than bits: a carrying token whose other characters moved
\* behind its letters, and a later token that is emitted as it stands
\* although it is neither of its two carrying forms
C23_Witness ==
  /\ Embedded("binary")
  /\ stego.ok
  /\ LET words == split(cover_text)
         L     == Len(message_to_binary(secret_message))
         out   == split(stego.value)
     IN  /\ Len(words) > L
         /\ Len(out) = Len(words)
         /\ \E i \in 1..L :
              /\ out[i] \notin {lower(words[i]), capitalize(words[i])}
              /\ out[i] = Carried(words[i],
                                   message_to_binary(secret_message)[i])
         /\ \E i \in (L + 1)..Len(words) :
              /\ out[i] = words[i]
              /\ words[i] \notin {Carried(words[i], "0"),
                                   Carried(words[i], "1")}

\* the positions of the letters of a token
LetterPositions(word) == {i \in 1..Len(word) : isalpha(word[i])}

\* the bit of a token: 1 iff it has a letter and the first one is upper case
TokenBit(word) ==
  IF /\ LetterPositions(word) # {}
     /\ isupper(word[Least(LetterPositions(word))])
  THEN "1" ELSE "0"

\* C24: capitalization extract reads exactly one bit per whitespace-
\* delimited token, 1 iff the token's first alphabetic character is upper
\* case and 0 otherwise, so 0 for a token without a letter; a cover token
\* without a letter that was given bit 1 reads back 0.
C24_BinaryExtractBits ==
  /\ (pc = "extracted" /\ xmethod = "binary") =>
       LET words == split(stego_text)
           bits  == [i \in 1..Len(words) |-> TokenBit(words[i])]
       IN  /\ binary_bits(stego_text) = bits
           /\ extracted.ok
           /\ extracted.value = GroupsBeforeTerminator(bits)
  /\ (RoundTrip("binary") /\ stego.ok) =>
       LET words == split(cover_text)
           bits  == message_to_binary(secret_message)
           out   == split(stego_text)
       IN  \A i \in 1..min(Len(words), Len(bits)) :
             (LetterPositions(words[i]) = {} /\ bits[i] = "1") =>
               TokenBit(out[i]) = "0"

\* a token without a letter was given a 1, and the message read back is
\* not the one embedded
C24_Witness ==
  /\ RoundTrip("binary")
  /\ stego.ok
  /\ OneByteNoNul(secret_message)
  /\ extracted.value # secret_message
  /\ LET words == split(cover_text)
         bits  == message_to_binary(secret_message)
     IN  \E i \in 1..min(Len(words), Len(bits)) :
           /\ LetterPositions(words[i]) = {}
           /\ bits[i] = "1"
           /\ binary_bits(stego_text)[i] = "0"

\* an extract request on a string that names one of the three methods
ExplicitExtract ==
  /\ request.received
  /\ request.route = "/extract"
  /\ "stego_text" \in DOMAIN request.data
  /\ is_string(request.data)
  /\ get_method(request.data) \in Methods

\* C25: extract_message with a named method returns what that method
\* reads, also when it is empty; an extract request naming a method whose
\* extraction is empty is answered with status 400, whatever the other
\* methods would extract, and one whose extraction is not empty with that
\* extraction and that method.
C25_NoRetryInCodec ==
  ExplicitExtract =>
    LET s    == request.data.stego_text
        m    == get_method(request.data)
        read == GroupsBeforeTerminator(ReadBits(s, m))
    IN  /\ extract_message(s, m) = Return(read)
        /\ IF read = <<>>
           THEN /\ response.status = 400
                /\ ~response.success
                /\ response.error = "Could not extract message from text"
           ELSE /\ response.status = 200
                /\ response.success
                /\ response.method_used = m
                /\ response.extracted_message = read

\* the named method extracts nothing from a text in which another method
\* finds a message, and the answer is the 400
C25_Witness ==
  /\ ExplicitExtract
  /\ ~Found(request.data.stego_text, get_method(request.data))
  /\ FallbackHits(request.data.stego_text) # <<>>
  /\ response.status = 400
  /\ ~response.success

\* an extract request on the text that a synonym or binary embed returned
ExtractOfSingleSpaced ==
  /\ request.received
  /\ request.route = "/extract"
  /\ "stego_text" \in DOMAIN request.data
  /\ method \in {"synonym", "binary"}
  /\ stego.ok
  /\ request.data.stego_text = stego.value

\* C26: a text returned by synonym or binary embed has single spaces as
\* its only separators, whitespace extraction reads only 0 bits from it and
\* returns the empty string, and no extract request on it is answered
\* with the whitespace method.
C26_NoWhitespaceAttribution ==
  ExtractOfSingleSpaced =>
    LET s == request.data.stego_text
    IN  /\ \A i \in 1..Len(s) : IsSpace(s[i]) => s[i] = SPACE
        /\ \A i \in 1..(Len(s) - 1) : ~(s[i] = SPACE /\ s[i + 1] = SPACE)
        /\ \A i \in 1..Len(whitespace_bits(s)) : whitespace_bits(s)[i] = "0"
        /\ extract_message(s, "whitespace") = Return(<<>>)
        /\ ~(response.success /\ response.method_used = "whitespace")
        /\ get_method(request.data) = "whitespace" => response.status = 400

\* an auto extract on a synonym text of more than eight separators for
\* which the recommender predicts whitespace: answered with synonym
C26_Witness ==
  /\ ExtractOfSingleSpaced
  /\ method = "synonym"
  /\ get_method(request.data) = "auto"
  /\ analysis.recommended_method = "whitespace"
  /\ Len(whitespace_bits(request.data.stego_text)) > 8
  /\ response.success
  /\ response.method_used = "synonym"

\* an embed request with both fields for which the handler calls the
\* whitespace method
WhitespaceEmbedRequest ==
  /\ request.received
  /\ request.route = "/embed"
  /\ "cover_text" \in DOMAIN request.data
  /\ "secret_message" \in DOMAIN request.data
  /\ method = "whitespace"

\* C27: whitespace embed on a cover of n >= 1 words and L bits returns
\* the cover's words followed by max(0, L + 1 - n) added words; on a cover
\* without words the call raises, and an embed request on such a cover
\* that leaves the method to the recommender, which selects whitespace,
\* is answered with an error and not with a stego text.
C27_WhitespaceTermination ==
  /\ WhitespaceEmbedRequest =>
       LET words == split(request.data.cover_text)
           n     == Len(words)
           L     == Len(message_to_binary(request.data.secret_message))
           out   == split(response.stego_text)
       IN  IF n >= 1
           THEN /\ stego.ok
                /\ response.success
                /\ response.stego_text = stego.value
                /\ Len(out) - n = (IF L + 1 - n > 0 THEN L + 1 - n ELSE 0)
                /\ SubSeq(out, 1, n) = words
           ELSE /\ ~stego.ok
                /\ ~response.success
                /\ response.status = 500
                /\ response.error = "ZeroDivisionError"
                /\ response.stego_text = <<>>
  /\ (AutoEmbed /\ split(request.data.cover_text) = <<>>) =>
       /\ analysis.recommended_method = "whitespace"
       /\ method = "whitespace"
       /\ ~response.success

\* an embed request without a method on a cover of whitespace alone:
\* the recommender selects whitespace and the answer is the error
C27_Witness ==
  /\ AutoEmbed
  /\ request.data.cover_text # <<>>
  /\ split(request.data.cover_text) = <<>>
  /\ analysis.recommended_method = "whitespace"
  /\ ~stego.ok
  /\ response.status = 500

\* no token of the cover is read by synonym extract: none is, stripped and
\* in lower case, a table key, an alternative[0] or alternative[1] of a
\* key, or 'furthermore'
PaddingOnly(cover) ==
  \A i \in 1..Len(split(cover)) :
    LET c == Stripped(split(cover)[i])
    IN  /\ \A k \in 1..Len(synonyms) : synonyms[k].key # c
        /\ Alt0Keys(c) = {}
        /\ Alt1Keys(c) = {}
        /\ c # LowerFurthermore

\* C28: for a payload of bytes without 0x00 and a cover, the empty one
\* included, none of whose tokens is read by synonym extract, synonym
\* extract of synonym embed returns the payload, every bit being carried
\* by a 'Furthermore' or an 'and' appended after the cover's tokens.
C28_SynonymPaddingRoundTrip ==
  (/\ RoundTrip("synonym")
   /\ stego.ok
   /\ stego_text = stego.value
   /\ OneByteNoNul(secret_message)
   /\ PaddingOnly(cover_text)) =>
    LET n    == Len(split(cover_text))
        bits == message_to_binary(secret_message)
        out  == split(stego_text)
    IN  /\ extracted = Return(secret_message)
        /\ Len(out) = n + Len(bits)
        /\ SubSeq(out, 1, n) = split(cover_text)
        /\ \A j \in 1..Len(bits) :
             out[n + j] = (IF bits[j] = "1" THEN Furthermore ELSE And)

\* a payload of two bytes behind a cover with tokens, none of which is read
C28_Witness ==
  /\ RoundTrip("synonym")
  /\ stego.ok
  /\ stego_text = stego.value
  /\ OneByteNoNul(secret_message)
  /\ Len(secret_message) = 2
  /\ PaddingOnly(cover_text)
  /\ split(cover_text) # <<>>
  /\ extracted = Return(secret_message)

\* the last request was a POST /extract and its answer is a success
SuccessfulExtract ==
  /\ request.received
  /\ request.route = "/extract"
  /\ response.success

\* the recommender returns on the stego_text of the request and the
\* method it predicts extracts a message
PredictedSucceeded(data) ==
  /\ is_string(data)
  /\ Found(data.stego_text,
           analyze_text_for_steganography(data.stego_text).recommended_method)

\* what the answer of a successful extract request holds, but for the
\* confidence of a fallback success
ConsistentExtract(data) ==
  /\ response.status = 200
  /\ response.extracted_message # <<>>
  /\ call_extract_message(data, response.method_used)
       = Return(response.extracted_message)
  /\ get_method(data) # "auto" =>
       /\ response.method_used = get_method(data)
       /\ response.confidence = 90
  /\ (get_method(data) = "auto" /\ PredictedSucceeded(data)) =>
       LET predicted == analyze_text_for_steganography(data.stego_text)
       IN  /\ response.method_used = predicted.recommended_method
           /\ response.confidence = predicted.confidence
  /\ (get_method(data) = "auto" /\ ~PredictedSucceeded(data)) =>
       /\ response.method_used \in {"whitespace", "synonym", "binary"}
       /\ \A k \in 1..Len(FallbackOrder) :
            (/\ call_extract_message(data, FallbackOrder[k]).ok
             /\ call_extract_message(data, FallbackOrder[k]).value # <<>>) =>
              \E j \in 1..k : FallbackOrder[j] = response.method_used

\* C29 as stated: a successful extract response holds a non-empty
\* extracted_message, the one extract_message reads with method_used; its
\* confidence is the recommender's when the predicted method succeeded,
\* 0.7 when a method of the fallback order succeeded, and 0.9 for a named
\* method.
C29_FallbackConfidence70 ==
  SuccessfulExtract =>
    /\ ConsistentExtract(request.data)
    /\ (/\ get_method(request.data) = "auto"
        /\ ~PredictedSucceeded(request.data)) => response.confidence = 70

\* C29: a successful extract response holds a non-empty extracted_message,
\* the one extract_message reads with method_used; for 'auto' the
\* predicted method is tried before the fallback order; the confidence is
\* the recommender's when the predicted method succeeded, 0.7 when a
\* method of the fallback order succeeded after the recommender returned,
\* 0.6 when one succeeded after the recommender raised, and 0.9 for a
\* named method.
C29_ExtractResponseConsistent ==
  SuccessfulExtract =>
    /\ ConsistentExtract(request.data)
    /\ (/\ get_method(request.data) = "auto"
        /\ ~PredictedSucceeded(request.data)) =>
         response.confidence = (IF is_string(request.data) THEN 70 ELSE 60)

\* an auto extract on an array of characters: the recommender raises, the
\* whitespace method of the fallback order reads a message, and the
\* confidence is 0.6
C29_Witness ==
  /\ SuccessfulExtract
  /\ get_method(request.data) = "auto"
  /\ ~is_string(request.data)
  /\ response.method_used = "whitespace"
  /\ response.extracted_message
       = _extract_whitespace(request.data.stego_text).value
  /\ response.confidence = 60

-----------------------------------------------------------------------------
(* Properties of texts read with a tail, under SpecTail. *)

\* the text s that the tail was appended to
TailBase == IF method = "none" THEN cover_text ELSE stego.value

\* the text read is s, a space and a tail
ReadWithTail ==
  /\ pc = "extracted"
  /\ xmethod \in Methods
  /\ Len(stego_text) > Len(TailBase)
  /\ SubSeq(stego_text, 1, Len(TailBase) + 1) = TailBase \o <<SPACE>>

\* C30: for each method and every text s in whose bits, read by that
\* method, some aligned group of eight is all zero, extract_message of s
\* followed by a space and any text t returns what it returns for s alone.
C30_TailIgnored ==
  (ReadWithTail /\ ZeroGroups(ReadBits(TailBase, xmethod)) # {}) =>
    /\ extracted.ok
    /\ extracted.value = GroupsBeforeTerminator(ReadBits(TailBase, xmethod))
    /\ extracted = extract_message(TailBase, xmethod)

\* a message embedded and read back by the same method from a text with a
\* tail that holds 1 bits after the terminator and a later all-zero group
C30_Witness ==
  /\ ReadWithTail
  /\ method = xmethod
  /\ secret_message # <<>>
  /\ extracted.value = secret_message
  /\ LET base == ReadBits(TailBase, xmethod)
         all  == ReadBits(stego_text, xmethod)
     IN  /\ ZeroGroups(base) # {}
         /\ \E i \in (Len(base) + 1)..Len(all) : all[i] = "1"
         /\ \E k \in ZeroGroups(all) : k > Len(base) \div 8 + 1

====
